---------------------------- MODULE Spec2Model ----------------------------
(***************************************************************************)
(* A model of the hf-downloader repository: the single-process web app     *)
(* (app.py), the stand-alone download module (download.py), the            *)
(* multi-process pipeline (app_multiprocess.py, download_manager.py,       *)
(* monitor_service.py) and the pure helpers they share (utils.py).         *)
(*                                                                         *)
(* Conventions.  A Python str is a sequence of one-character strings.      *)
(* A float is an exact rational [n, d] in lowest terms.  The text of       *)
(* current_file is abstracted to a tag naming the statement that built it; *)
(* variables that feed only that text (stall_counter,                      *)
(* last_downloaded_bytes) are left out.  time.time() is abstracted to the  *)
(* tag "set".                                                              *)
(***************************************************************************)
EXTENDS Integers, Sequences, FiniteSets, TLC

VARIABLES
    variant,          \* which program is deployed
    fn_call,          \* the pure-function call under way (variant "functions")
    download_status,  \* the status record (module global / manager.dict)
    disk,             \* /models/<repo_id> with its cache directory: bytes, files, exists
    tasks,            \* app.py: the background tasks (start_download_task threads)
    dl,               \* download.py: the start_download_task call under way
    task_queue,       \* multi-process: web server -> download manager
    status_queue,     \* multi-process: download manager and monitor -> status processor
    response_queue,   \* multi-process: download manager -> status processor
    monitor_requests_queue,  \* multi-process: web server and status processor -> monitor
    pending_tasks,    \* multi-process: AppState.pending_tasks
    next_task_id,     \* multi-process: the next uuid4 the web server draws
    dm,               \* multi-process: download_manager_process
    mon,              \* multi-process: monitoring_service_process
    sp                \* multi-process: status_update_processor

mpVars == <<task_queue, status_queue, response_queue, monitor_requests_queue,
            pending_tasks, next_task_id, dm, mon, sp>>

vars == <<variant, fn_call, download_status, disk, tasks, dl, mpVars>>

\* the variables each variant leaves alone
notApp == <<variant, fn_call, dl, mpVars>>

notDownload == <<variant, fn_call, tasks, mpVars>>

notMultiprocess == <<variant, fn_call, tasks, dl>>

notFunctions == <<variant, download_status, disk, tasks, dl, mpVars>>

---------------------------------------------------------------------------
\* Exact rationals for Python floats.

RECURSIVE Gcd(_, _)
Gcd(a, b) == IF b = 0 THEN a ELSE Gcd(b, a % b)

Rat(n, d) == LET g == Gcd(n, d) IN [n |-> n \div g, d |-> d \div g]

FromInt(k) == [n |-> k, d |-> 1]

\* a <= b, by whole part first so that the products stay small
RatLeq(a, b) ==
    LET qa == a.n \div a.d
        qb == b.n \div b.d
    IN  IF qa # qb THEN qa < qb
        ELSE (a.n % a.d) * b.d <= (b.n % b.d) * a.d

RatLess(a, b) == ~RatLeq(b, a)

RatMin(a, b) == IF RatLeq(a, b) THEN a ELSE b

RatAddInt(a, k) == Rat(a.n + k * a.d, a.d)

---------------------------------------------------------------------------
\* Strings.

Contains(s, c) == \E i \in 1..Len(s) : s[i] = c

\* str.split(sep) for a one-character separator
RECURSIVE Split(_, _)
Split(s, sep) ==
    IF ~Contains(s, sep) THEN <<s>>
    ELSE LET i == CHOOSE k \in 1..Len(s) :
                      s[k] = sep /\ \A j \in 1..(k - 1) : s[j] # sep
         IN  <<SubSeq(s, 1, i - 1)>> \o Split(SubSeq(s, i + 1, Len(s)), sep)

\* A Python value handed to a validator: a str, or something that is not one.
Str(s) == [kind |-> "str", chars |-> s]

NoneValue == [kind |-> "none", chars |-> <<>>]

IntValue == [kind |-> "int", chars |-> <<>>]

\* utils.validate_repo_id (the copies in app.py, app_multiprocess.py and
\* update.py test the same three conditions)
validate_repo_id(repo_id) ==
    IF repo_id.kind # "str" \/ repo_id.chars = <<>> THEN FALSE
    ELSE IF ~Contains(repo_id.chars, "/") \/ Contains(repo_id.chars, " ") THEN FALSE
    ELSE LET parts == Split(repo_id.chars, "/")
         IN  IF Len(parts) # 2 \/ \E i \in 1..Len(parts) : parts[i] = <<>>
             THEN FALSE
             ELSE TRUE

---------------------------------------------------------------------------
\* Paths.  A path is a str whose characters are "/", "." and name characters;
\* the six characters of "models" travel together as the one symbol "models".

StartsWith(s, prefix) ==
    Len(s) >= Len(prefix) /\ SubSeq(s, 1, Len(prefix)) = prefix

\* sep.join(comps)
RECURSIVE Join(_, _)
Join(comps, sep) ==
    IF comps = <<>> THEN <<>>
    ELSE IF Len(comps) = 1 THEN comps[1]
    ELSE comps[1] \o <<sep>> \o Join(Tail(comps), sep)

DotDot == <<".", ".">>

\* posixpath.normpath: the loop over the components
RECURSIVE NormComps(_, _, _)
NormComps(comps, new_comps, initial_slashes) ==
    IF comps = <<>> THEN new_comps
    ELSE LET comp == Head(comps)
             n == Len(new_comps)
         IN  IF comp = <<>> \/ comp = <<".">>
             THEN NormComps(Tail(comps), new_comps, initial_slashes)
             ELSE IF \/ comp # DotDot
                     \/ (initial_slashes = 0 /\ n = 0)
                     \/ (n > 0 /\ new_comps[n] = DotDot)
             THEN NormComps(Tail(comps), Append(new_comps, comp), initial_slashes)
             ELSE IF n > 0
             THEN NormComps(Tail(comps), SubSeq(new_comps, 1, n - 1), initial_slashes)
             ELSE NormComps(Tail(comps), new_comps, initial_slashes)

\* posixpath.normpath
normpath(path) ==
    IF path = <<>> THEN <<".">>
    ELSE LET initial_slashes ==
                 IF ~StartsWith(path, <<"/">>) THEN 0
                 ELSE IF StartsWith(path, <<"/", "/">>) /\ ~StartsWith(path, <<"/", "/", "/">>)
                      THEN 2 ELSE 1
             joined == Join(NormComps(Split(path, "/"), <<>>, initial_slashes), "/")
             result == [i \in 1..initial_slashes |-> "/"] \o joined
         IN  IF result = <<>> THEN <<".">> ELSE result

ModelsDir == <<"/", "models">>

ModelsPrefix == <<"/", "models", "/">>

\* a validator that trusts the prefix and never normalizes
validate_model_path_prefix_only(model_path) ==
    model_path.kind = "str" /\ StartsWith(model_path.chars, ModelsPrefix)

\* utils.validate_model_path (app.py, app_multiprocess.py and delete.py hold
\* copies that test the same conditions)
validate_model_path(model_path) ==
    IF model_path.kind # "str" \/ model_path.chars = <<>> THEN FALSE
    ELSE IF ~StartsWith(model_path.chars, ModelsPrefix) THEN FALSE
    ELSE LET normalized_path == normpath(model_path.chars)
         IN  IF \/ ~StartsWith(normalized_path, ModelsPrefix)
                \/ normalized_path \in {ModelsDir, ModelsPrefix}
             THEN FALSE
             ELSE TRUE

---------------------------------------------------------------------------
\* The catalog.  A file name is a str in which a word ("model", "of"), a run
\* of digits written as one digit, and an extension each travel as one symbol.

EndsWith(s, suffix) ==
    Len(s) >= Len(suffix) /\ SubSeq(s, Len(s) - Len(suffix) + 1, Len(s)) = suffix

Digits == {"1", "2", "3"}

\* the length of the run of digits that ends at position i of name
RECURSIVE DigitRun(_, _)
DigitRun(name, i) ==
    IF i >= 1 /\ i <= Len(name) /\ name[i] \in Digits
    THEN 1 + DigitRun(name, i - 1)
    ELSE 0

NoMatch == [matched |-> FALSE, base |-> <<>>, total |-> <<>>]

\* re.match(r'(.+)-(\d+)-of-(\d+)<ext>$', filename), read from the right:
\* the groups are base, part number and total
ShardMatch(filename, ext) ==
    LET n == Len(filename)
        t == DigitRun(filename, n - 1)
        of_end == n - 1 - t
        p == DigitRun(filename, of_end - 3)
        dash == of_end - 3 - p
    IN  IF /\ n >= 1 /\ filename[n] = ext
           /\ t >= 1
           /\ of_end >= 3
           /\ SubSeq(filename, of_end - 2, of_end) = <<"-", "of", "-">>
           /\ p >= 1
           /\ dash >= 2
           /\ filename[dash] = "-"
        THEN [matched |-> TRUE, base |-> SubSeq(filename, 1, dash - 1),
              total |-> SubSeq(filename, n - t, n - 1)]
        ELSE NoMatch

\* groups[group_key].append(file): groups is kept in insertion order
AppendToGroup(groups, group_key, file) ==
    IF \E i \in 1..Len(groups) : groups[i].name = group_key
    THEN [i \in 1..Len(groups) |->
            IF groups[i].name = group_key
            THEN [groups[i] EXCEPT !.files = Append(@, file)]
            ELSE groups[i]]
    ELSE Append(groups, [name |-> group_key, files |-> <<file>>])

\* the group key of one file, or <<>> when the file stays ungrouped
GroupKey(filename, parent_dir) ==
    LET safetensors_match == ShardMatch(filename, ".safetensors")
        bin_match == ShardMatch(filename, ".bin")
    IN  IF safetensors_match.matched
        THEN safetensors_match.base \o <<"-", "*", "-", "of", "-">>
                 \o safetensors_match.total \o <<".safetensors">>
        ELSE IF EndsWith(filename, <<".gguf">>)
        THEN <<parent_dir, "/", "*", ".gguf">>
        ELSE IF /\ StartsWith(filename, <<"pytorch_model", "-">>)
                /\ EndsWith(filename, <<".bin">>)
                /\ bin_match.matched
                /\ bin_match.base = <<"pytorch_model">>
        THEN <<"pytorch_model", "-", "*", "-", "of", "-">> \o bin_match.total \o <<".bin">>
        ELSE <<>>

\* utils.group_model_files, over the files left to look at
RECURSIVE group_model_files(_, _, _, _)
group_model_files(files, parent_dir, groups, ungrouped) ==
    IF files = <<>> THEN [groups |-> groups, ungrouped |-> ungrouped]
    ELSE LET file == Head(files)
             group_key == GroupKey(file.name, parent_dir)
         IN  IF group_key # <<>>
             THEN group_model_files(Tail(files), parent_dir,
                                    AppendToGroup(groups, group_key, file), ungrouped)
             ELSE group_model_files(Tail(files), parent_dir, groups,
                                    Append(ungrouped, file))

ModelExtensions == {".safetensors", ".bin", ".gguf", ".pt", ".pth"}

\* [f for f in files if any(f.endswith(ext) for ext in [...])]
RECURSIVE ModelFiles(_)
ModelFiles(files) ==
    IF files = <<>> THEN <<>>
    ELSE IF Head(files).name[Len(Head(files).name)] \in ModelExtensions
         THEN <<Head(files)>> \o ModelFiles(Tail(files))
         ELSE ModelFiles(Tail(files))

\* a sum with no terms, standing for every sum
NoSum(file_objs) == 0

\* sum(f['size_bytes'] for f in file_objs)
RECURSIVE SumSizes(_)
SumSizes(file_objs) ==
    IF file_objs = <<>> THEN 0
    ELSE Head(file_objs).size_bytes + SumSizes(Tail(file_objs))

\* utils.scan_models for one directory of /models holding files: the list of
\* model_info records it returns
scan_models(files, parent_dir) ==
    LET model_files == ModelFiles(files)
        grouped == group_model_files(model_files, parent_dir, <<>>, <<>>)
    IN  IF model_files = <<>> THEN <<>>
        ELSE <<[name |-> parent_dir,
                groups |-> [i \in 1..Len(grouped.groups) |->
                              [name |-> grouped.groups[i].name,
                               files |-> grouped.groups[i].files,
                               count |-> Len(grouped.groups[i].files),
                               size_bytes |-> SumSizes(grouped.groups[i].files)]],
                individual_files |-> grouped.ungrouped,
                total_size_bytes |-> SumSizes(model_files)]>>

\* the points of a scan at which a file of the listing can have vanished:
\* before os.path.exists in create_file_metadata, between that test and
\* os.path.getsize, before os.path.exists in the total, between that test and
\* os.path.getsize
Moments == {"metadata_exists", "metadata_getsize", "total_exists", "total_getsize"}

\* utils.create_file_metadata of a file of the listing, name being the file
\* that vanishes at moment: a missing file gets size 0, by the conditional or
\* by the except branch
create_file_metadata(file, name, moment) ==
    IF file.name = name /\ moment \in {"metadata_exists", "metadata_getsize"}
    THEN [file EXCEPT !.size_bytes = 0]
    ELSE file

ScanResult(raised, models) == [raised |-> raised, models |-> models]

\* utils.scan_models for one directory while the file called name vanishes at
\* moment; the total is sum(os.path.getsize(f) for f in model_files
\* if os.path.exists(f)), outside any try block
scan_models_racing(files, parent_dir, name, moment) ==
    LET model_files == ModelFiles(files)
        grouped == group_model_files(model_files, parent_dir, <<>>, <<>>)
        Metadata(fs) == [i \in 1..Len(fs) |-> create_file_metadata(fs[i], name, moment)]
        StillThere(f) == f.name # name
    IN  IF model_files = <<>> THEN ScanResult(FALSE, <<>>)
        ELSE IF moment = "total_getsize" /\ \E i \in 1..Len(model_files) : model_files[i].name = name
        THEN ScanResult(TRUE, <<>>)
        ELSE ScanResult(FALSE,
               <<[name |-> parent_dir,
                  groups |-> [i \in 1..Len(grouped.groups) |->
                                [name |-> grouped.groups[i].name,
                                 files |-> Metadata(grouped.groups[i].files),
                                 count |-> Len(grouped.groups[i].files),
                                 size_bytes |-> SumSizes(Metadata(grouped.groups[i].files))]],
                  individual_files |-> Metadata(grouped.ungrouped),
                  total_size_bytes |-> SumSizes(SelectSeq(model_files, StillThere))]>>)

---------------------------------------------------------------------------
\* The migration script.  A directory entry is what stands at a path: a regular
\* file, a symlink (whose target may be missing) or a file with a second hard
\* link elsewhere; copy_fails says whether shutil.copy2 to that path raises for
\* a reason of its own (disk full, permissions).

Gone == [present |-> FALSE, kind |-> "none", content |-> "none"]

\* migration.is_symlink_or_link
is_symlink_or_link(entry) ==
    IF entry.kind = "symlink" THEN "symlink"
    ELSE IF entry.kind = "hardlink" THEN "hardlink"
    ELSE "regular"

\* migration.copy_and_replace_link(file_path, file_path): the target is read
\* from the symlink, or is the path itself; os.unlink(link_path) comes first,
\* then shutil.copy2(target, link_path), and any exception gives False
copy_and_replace_link(entry) ==
    LET target_readable ==
            IF entry.kind = "symlink" THEN ~entry.dangling
            ELSE FALSE \* the target is the path just unlinked
    IN  IF target_readable /\ ~entry.copy_fails
        THEN [ok |-> TRUE,
              entry |-> [present |-> TRUE, kind |-> "regular", content |-> entry.content]]
        ELSE [ok |-> FALSE, entry |-> Gone]

\* migration.migrate_model_directory: the walk over the files of the directory;
\* what stands at each path afterwards, and whether any file was converted
migrate_model_directory(entries) ==
    LET After(e) ==
            IF is_symlink_or_link(e) # "regular"
            THEN copy_and_replace_link(e)
            ELSE [ok |-> FALSE,
                  entry |-> [present |-> TRUE, kind |-> e.kind, content |-> e.content]]
    IN  [entries |-> [i \in 1..Len(entries) |-> After(entries[i]).entry],
         converted |-> \E i \in 1..Len(entries) : After(entries[i]).ok]

---------------------------------------------------------------------------
\* The disk scan.  A file is its size and whether stat succeeds on it (a file
\* that vanished or cannot be read makes stat raise OSError).

\* repo_id.replace('/', '--')
RECURSIVE ReplaceSlashes(_)
ReplaceSlashes(repo_id) ==
    IF repo_id = <<>> THEN <<>>
    ELSE (IF Head(repo_id) = "/" THEN <<"-", "-">> ELSE <<Head(repo_id)>>)
         \o ReplaceSlashes(Tail(repo_id))

\* f"models--{repo_id.replace('/', '--')}"
cache_repo_dir(repo_id) == <<"models", "-", "-">> \o ReplaceSlashes(repo_id)

SizeResult(raised, total) == [raised |-> raised, total |-> total]

\* a walk that reads every size with no try block around the read
RECURSIVE WalkSizesUnguarded(_)
WalkSizesUnguarded(files) ==
    IF files = <<>> THEN SizeResult(FALSE, 0)
    ELSE LET rest == WalkSizesUnguarded(Tail(files))
         IN  IF Head(files).readable
             THEN SizeResult(rest.raised, Head(files).size_bytes + rest.total)
             ELSE SizeResult(TRUE, rest.total)

\* the walk over one directory: total_downloaded += size inside try, with
\* except (OSError, IOError): continue (utils.py) or pass (app.py)
RECURSIVE WalkSizes(_)
WalkSizes(files) ==
    IF files = <<>> THEN SizeResult(FALSE, 0)
    ELSE LET rest == WalkSizes(Tail(files))
         IN  IF Head(files).readable
             THEN SizeResult(rest.raised, Head(files).size_bytes + rest.total)
             ELSE rest

\* utils.calculate_downloaded_size (app.py and monitor_service.py hold copies):
\* local_files are the files below local_dir, cache the one directory that
\* cache_dir holds, with its name and its files
calculate_downloaded_size_walk(local_files, cache, repo_id) ==
    LET local == WalkSizes(local_files)
        cached == IF cache.name = cache_repo_dir(repo_id)
                  THEN WalkSizes(cache.files)
                  ELSE SizeResult(FALSE, 0)
    IN  SizeResult(local.raised \/ cached.raised, local.total + cached.total)

---------------------------------------------------------------------------
\* The delete entry points, called on a storage that holds one model
\* directory, /models/x, with one file in it.

\* the working directory of the server process
Cwd == <<"/", "app">>

ModelX == <<"/", "models", "/", "x">>

ModelXFile == ModelX \o <<"/", "f">>

Files == {ModelXFile}

\* every directory and file there is
Tree == {<<"/">>, Cwd, ModelsDir, ModelX} \cup Files

\* the entry the operating system resolves path to (no symbolic links)
abspath(path) ==
    LET p == normpath(IF StartsWith(path, <<"/">>) THEN path ELSE Cwd \o <<"/">> \o path)
    IN  IF StartsWith(p, <<"/", "/">>) THEN Tail(p) ELSE p

\* entry is dir or lies below it
Below(entry, dir) ==
    entry = dir \/ dir = <<"/">> \/ StartsWith(entry, dir \o <<"/">>)

\* os.path.exists(path) for a str
tree_exists(tree, path) == path # <<>> /\ abspath(path) \in tree

\* the storage after shutil.rmtree(path)
tree_rmtree(tree, path) == {e \in tree : ~Below(e, abspath(path))}

DeleteResult(success, tree) == [success |-> success, tree |-> tree]

\* app.py: delete_model
delete_model(tree, model_path) ==
    IF ~validate_model_path(model_path) THEN DeleteResult(FALSE, tree)
    ELSE IF tree_exists(tree, model_path.chars)
    THEN DeleteResult(TRUE, tree_rmtree(tree, model_path.chars))
    ELSE DeleteResult(FALSE, tree)

\* download_manager.py: perform_delete
perform_delete(tree, model_path) ==
    IF ~validate_model_path(model_path) THEN DeleteResult(FALSE, tree)
    ELSE IF tree_exists(tree, model_path.chars)
    THEN DeleteResult(TRUE, tree_rmtree(tree, model_path.chars))
    ELSE DeleteResult(FALSE, tree)

\* delete.py: delete_model_task
delete_model_task(tree, model_path) ==
    IF ~validate_model_path(model_path) THEN DeleteResult(FALSE, tree)
    ELSE IF tree_exists(tree, model_path.chars)
    THEN DeleteResult(TRUE, tree_rmtree(tree, model_path.chars))
    ELSE DeleteResult(FALSE, tree)

\* pattern in file
IsSubstring(pattern, file) ==
    \E i \in 0..(Len(file) - Len(pattern)) : SubSeq(file, i + 1, i + Len(pattern)) = pattern

\* pattern.replace('*', '')
RemoveStars(pattern) == SelectSeq(pattern, LAMBDA c : c # "*")

\* allow_patterns = [f"*{quant_pattern}*"] if quant_pattern.strip() else None;
\* None is the empty list
AllowPatterns(quant_pattern) ==
    IF quant_pattern = <<>> THEN <<>> ELSE <<<<"*">> \o quant_pattern \o <<"*">>>>

\* any(pattern.replace('*', '') in sibling.rfilename for pattern in allow_patterns)
MatchesPattern(rfilename, allow_patterns) ==
    \E i \in 1..Len(allow_patterns) : IsSubstring(RemoveStars(allow_patterns[i]), rfilename)

RepoInfo(total_size, file_count) == [total |-> total_size, count |-> file_count]

\* get_repo_info_with_patterns: the loop over repo_info.siblings
RECURSIVE SumSiblings(_, _, _, _)
SumSiblings(siblings, allow_patterns, total_size, file_count) ==
    IF siblings = <<>> THEN RepoInfo(total_size, file_count)
    ELSE LET sibling == Head(siblings)
         IN  IF allow_patterns # <<>> /\ ~MatchesPattern(sibling.rfilename, allow_patterns)
             THEN SumSiblings(Tail(siblings), allow_patterns, total_size, file_count)
             ELSE IF sibling.has_size /\ sibling.size # 0
             THEN SumSiblings(Tail(siblings), allow_patterns,
                              total_size + sibling.size, file_count + 1)
             ELSE SumSiblings(Tail(siblings), allow_patterns, total_size, file_count)

\* download_manager.get_repo_info_with_patterns (app.py holds a copy); a
\* registry query that raises gives 0, 0
get_repo_info_with_patterns(siblings, allow_patterns, raises) ==
    IF raises THEN RepoInfo(0, 0)
    ELSE SumSiblings(siblings, allow_patterns, 0, 0)

\* os.path.basename(file_path)
basename(file_path) ==
    LET comps == Split(file_path, "/") IN comps[Len(comps)]

\* delete.py: delete_specific_files removes the files below model_path whose
\* name contains, or ends with, one of the patterns
delete_specific_files(tree, model_path, file_patterns) ==
    IF ~validate_model_path(model_path) THEN DeleteResult(FALSE, tree)
    ELSE IF ~tree_exists(tree, model_path.chars) THEN DeleteResult(FALSE, tree)
    ELSE LET matched ==
                 {f \in tree \cap Files :
                     /\ Below(f, abspath(model_path.chars))
                     /\ \E i \in 1..Len(file_patterns) :
                           \/ IsSubstring(file_patterns[i], basename(f))
                           \/ EndsWith(basename(f), file_patterns[i])}
         IN  DeleteResult(TRUE, tree \ matched)

\* model_manager.py: delete_model_func; os.path.exists of a value that is not
\* a str raises or names a file descriptor, and the call ends in the except
\* branch with nothing removed
delete_model_func(tree, model_path) ==
    IF model_path.kind # "str" THEN DeleteResult(FALSE, tree)
    ELSE IF tree_exists(tree, model_path.chars)
    THEN DeleteResult(TRUE, tree_rmtree(tree, model_path.chars))
    ELSE DeleteResult(FALSE, tree)

---------------------------------------------------------------------------
\* The update entry points outside the web apps.

\* what a call did: whether it returned at its own check of repo_id, whether
\* os.makedirs ran, whether snapshot_download was called
UpdateResult(rejected, made_dir, fetch_invoked) ==
    [rejected |-> rejected, made_dir |-> made_dir, fetch_invoked |-> fetch_invoked]

\* not repo_id or '/' not in repo_id; on an int the test raises TypeError
WeakCheckPasses(repo_id) ==
    repo_id.kind = "str" /\ repo_id.chars # <<>> /\ Contains(repo_id.chars, "/")

\* update.py: update_model_task
update_model_task(repo_id) ==
    IF repo_id.kind = "int" THEN UpdateResult(FALSE, FALSE, FALSE)
    ELSE IF ~WeakCheckPasses(repo_id) THEN UpdateResult(TRUE, FALSE, FALSE)
    ELSE UpdateResult(FALSE, TRUE, TRUE)

\* model_manager.py: update_model_func
update_model_func(repo_id) ==
    IF repo_id.kind = "int" THEN UpdateResult(FALSE, FALSE, FALSE)
    ELSE IF ~WeakCheckPasses(repo_id) THEN UpdateResult(TRUE, FALSE, FALSE)
    ELSE UpdateResult(FALSE, TRUE, TRUE)

---------------------------------------------------------------------------
\* Progress estimation.

ProgressCap == 95

FileCountFloor == 10

FileCountWeight == 3

MonitorFloor == 10

HeuristicBytesPerPercent == 104857600

FileCountStart == 10

FileCountStepNew == 5

FileCountStepIdle == 1

FileCountIdleCap == 90

\* the byte-based branch capped at 99
AppByteProgressCap99(downloaded_bytes, total_expected_bytes, file_count) ==
    IF downloaded_bytes > 0 /\ total_expected_bytes > 0
    THEN RatMin(FromInt(99), Rat(downloaded_bytes * 100, total_expected_bytes))
    ELSE RatMin(FromInt(99), FromInt(FileCountFloor + file_count * FileCountWeight))

\* app.download_with_progress, byte-based branch of one tick
AppByteProgress(downloaded_bytes, total_expected_bytes, file_count) ==
    IF downloaded_bytes > 0 /\ total_expected_bytes > 0
    THEN RatMin(FromInt(ProgressCap), Rat(downloaded_bytes * 100, total_expected_bytes))
    ELSE RatMin(FromInt(ProgressCap), FromInt(FileCountFloor + file_count * FileCountWeight))

\* a file-count fallback that loses a point on every idle tick
FileCountProgressDecaying(progress, file_count, last_file_count) ==
    IF file_count > last_file_count
    THEN RatMin(FromInt(ProgressCap), RatAddInt(progress, FileCountStepNew))
    ELSE RatAddInt(progress, 0 - FileCountStepIdle)

\* app.download_with_progress, file-count fallback of one tick
FileCountProgress(progress, file_count, last_file_count) ==
    IF file_count > last_file_count
    THEN RatMin(FromInt(ProgressCap), RatAddInt(progress, FileCountStepNew))
    ELSE IF RatLess(progress, FromInt(FileCountIdleCap))
         THEN RatMin(FromInt(FileCountIdleCap), RatAddInt(progress, FileCountStepIdle))
         ELSE progress

\* monitor_service.monitoring_service_process, "Calculate progress"
MonitorProgress(downloaded_bytes, total_expected_bytes) ==
    IF total_expected_bytes > 0
    THEN RatMin(FromInt(ProgressCap), Rat(downloaded_bytes * 100, total_expected_bytes))
    ELSE RatMin(FromInt(ProgressCap),
                Rat(MonitorFloor * HeuristicBytesPerPercent + downloaded_bytes,
                    HeuristicBytesPerPercent))

---------------------------------------------------------------------------
\* The status record and its update.

\* download_status.update(kwargs), then the ETA computation
UpdateStatus(st, kwargs) ==
    LET merged == [k \in DOMAIN st |-> IF k \in DOMAIN kwargs THEN kwargs[k] ELSE st[k]]
    IN  IF merged.start_time # "None" /\ RatLess(FromInt(0), merged.progress)
        THEN [merged EXCEPT !.eta = "set"]
        ELSE merged

\* app.py: the module-level download_status ("eta" is not a key yet)
AppInitialStatus ==
    [progress |-> FromInt(0), status |-> "idle", current_file |-> "",
     downloaded_files |-> 0, downloaded_bytes |-> 0, total_bytes |-> 0,
     repo_id |-> <<>>, start_time |-> "None", eta |-> "absent"]

\* no pure-function call under way
NoCall == [fn |-> "none", arg |-> NoneValue, done |-> FALSE, ret |-> FALSE]

---------------------------------------------------------------------------
\* The requests the operator sends, and the storage they fill.

RepoAB == <<"a", "/", "b">>

\* repo_id of a request body after .strip(): empty, malformed, well-formed
RequestIds == {<<>>, <<"a">>, RepoAB}

ValidRepos == {r \in RequestIds : validate_repo_id(Str(r))}

MaxBytes == 1

MaxFiles == 1

\* what the registry reports as the total size, when it answers
ProbeTotals == {100}

\* a directory that is not there
NoDir == [bytes |-> 0, files |-> 0, exists |-> FALSE]

EmptyDisk == [r \in ValidRepos |-> NoDir]

\* local_dir = f"/models/{repo_id}"
local_dir(repo_id) == ModelsPrefix \o repo_id

\* dir is the directory path names, or lies below it
Under(path, dir) == dir = normpath(path) \/ StartsWith(dir, normpath(path) \o <<"/">>)

\* the request handler's test of the identifier, then the directory the
\* transfer creates and hands to snapshot_download
download_destination(repo_id) ==
    IF validate_repo_id(Str(repo_id))
    THEN [accepted |-> TRUE, dir |-> local_dir(repo_id)]
    ELSE [accepted |-> FALSE, dir |-> <<>>]

\* os.makedirs(local_dir, exist_ok=True)
makedirs(d, repo_id) == [d EXCEPT ![repo_id].exists = TRUE]

\* os.path.exists(model_path), for a path below /models
path_exists(d, model_path) ==
    \E r \in DOMAIN d : d[r].exists /\ Under(model_path, local_dir(r))

\* shutil.rmtree(model_path)
rmtree(d, model_path) ==
    [r \in DOMAIN d |-> IF Under(model_path, local_dir(r)) THEN NoDir ELSE d[r]]

\* a final scan that finds nothing
calculate_downloaded_size_none(repo_id) == 0

\* app.py: calculate_downloaded_size walks the model directory and the
\* repository's cache directory and adds up the sizes of the files
calculate_downloaded_size(repo_id) == disk[repo_id].bytes

\* download_manager.py, perform_download: the rglob pass over the model
\* directory after snapshot_download returned
total_downloaded(repo_id) == disk[repo_id].bytes

---------------------------------------------------------------------------
\* app.py: the single-process web app.

MaxTasks == 2

\* the bulk fetch ends within this many monitoring ticks
MaxTicks == 2

TaskIds == 1..MaxTasks

IdleTask ==
    [pc |-> "idle", repo_id |-> <<>>, use_byte_progress |-> FALSE,
     total_expected_bytes |-> 0, progress |-> FromInt(FileCountStart),
     last_file_count |-> 0, file_count |-> 0, ticks |-> 0, fetch |-> "none"]

NoTasks == [t \in TaskIds |-> IdleTask]

FreeSlot == CHOOSE t \in TaskIds : tasks[t].pc = "idle" /\ \A u \in TaskIds : u < t => tasks[u].pc # "idle"

\* app.py on its own, or app.py serving one transfer at a time while delete
\* requests arrive and monitoring ticks raise
AppVariants == {"app", "app_solo"}

MaxSoloTasks == 1

TaskLimit == IF variant = "app_solo" THEN MaxSoloTasks ELSE MaxTasks

HasFreeSlot == Cardinality({t \in TaskIds : tasks[t].pc # "idle"}) < TaskLimit

Spawn(repo_id) == tasks' = [tasks EXCEPT ![FreeSlot] = [IdleTask EXCEPT !.pc = "start", !.repo_id = repo_id]]

FetchesInFlight == {t \in TaskIds : tasks[t].fetch = "running"}

\* what the web server answers: the status code and the JSON body's text
Reply(code, body) == [code |-> code, body |-> body]

\* a guard that never sees a transfer in progress
NeverInProgress(st) == FALSE

\* start_download: download_status["status"] == "downloading"
DownloadInProgress(st) == st.status = "downloading"

\* app.start_download: what POST /download answers
app_start_download_reply(repo_id) ==
    IF repo_id = <<>>
    THEN Reply(400, "Repository ID is required")
    ELSE IF ~validate_repo_id(Str(repo_id))
    THEN Reply(400, "Repository ID should be in format: username/model-name")
    ELSE IF DownloadInProgress(download_status)
    THEN Reply(400, "Download already in progress")
    ELSE Reply(200, "Download started")

\* POST /download: the handler starts the background task unless it answers
\* with an error
app_start_download(repo_id) ==
    /\ variant \in AppVariants
    /\ IF app_start_download_reply(repo_id).code = 200
       THEN HasFreeSlot /\ Spawn(repo_id)
       ELSE UNCHANGED tasks
    /\ UNCHANGED <<notApp, download_status, disk>>

\* app.api_update_model: what POST /api/models/update answers
app_api_update_model_reply(repo_id) ==
    IF ~validate_repo_id(Str(repo_id))
    THEN Reply(400, "Invalid repository ID")
    ELSE Reply(200, "Update started")

\* POST /api/models/update
app_api_update_model(repo_id) ==
    /\ variant \in AppVariants
    /\ IF app_api_update_model_reply(repo_id).code = 200
       THEN HasFreeSlot /\ Spawn(repo_id)
       ELSE UNCHANGED tasks
    /\ UNCHANGED <<notApp, download_status, disk>>

\* paths of POST /api/models/delete: a model's directory, its parent, the root
DeletePaths == {local_dir(RepoAB), ModelsPrefix \o <<"a">>, ModelsDir}

\* app.api_delete_model: what POST /api/models/delete answers
app_api_delete_model_reply(model_path) ==
    IF ~validate_model_path(Str(model_path))
    THEN Reply(400, "Invalid model path")
    ELSE IF path_exists(disk, model_path)
    THEN Reply(200, "Model deleted successfully")
    ELSE Reply(500, "Model path not found")

\* POST /api/models/delete: delete_model removes the directory at once
app_api_delete_model(model_path) ==
    /\ variant = "app_solo"
    /\ disk' = IF app_api_delete_model_reply(model_path).code = 200
               THEN rmtree(disk, model_path)
               ELSE disk
    /\ UNCHANGED <<notApp, download_status, tasks>>

\* start_download_task / update_model_with_progress: "Reset and initialize status"
app_task_reset(t) ==
    /\ variant \in AppVariants
    /\ tasks[t].pc = "start"
    /\ download_status' = UpdateStatus(download_status,
           [progress |-> FromInt(0), status |-> "starting", current_file |-> "Initializing...",
            downloaded_files |-> 0, downloaded_bytes |-> 0, total_bytes |-> 0,
            repo_id |-> tasks[t].repo_id, start_time |-> "set"])
    /\ tasks' = [tasks EXCEPT ![t].pc = "mark"]
    /\ UNCHANGED <<notApp, disk>>

\* start_download_task: os.makedirs, then the progress=5 / 'downloading' write
app_task_mark_downloading(t) ==
    /\ variant \in AppVariants
    /\ tasks[t].pc = "mark"
    /\ download_status' = UpdateStatus(download_status,
           [progress |-> FromInt(5), status |-> "downloading",
            current_file |-> "Getting repository information..."])
    /\ disk' = makedirs(disk, tasks[t].repo_id)
    /\ tasks' = [tasks EXCEPT ![t].pc = "probe"]
    /\ UNCHANGED notApp

\* download_with_progress up to thread.start(): get_repo_info_with_patterns
\* answers total (0 when the registry query fails), the status is updated, and
\* the download thread starts
app_task_probe(t, total) ==
    /\ variant \in AppVariants
    /\ tasks[t].pc = "probe"
    /\ download_status' =
         IF total > 0
         THEN UpdateStatus(download_status, [total_bytes |-> total, current_file |-> "Expected: ..."])
         ELSE UpdateStatus(download_status, [current_file |-> "Starting download (size unknown)..."])
    /\ tasks' = [tasks EXCEPT ![t].pc = "loop", ![t].use_byte_progress = (total > 0),
                              ![t].total_expected_bytes = total, ![t].fetch = "running"]
    /\ UNCHANGED <<notApp, disk>>

\* snapshot_download writing into /models/<repo_id> and the cache
app_fetch_writes(t, new_file) ==
    /\ variant \in AppVariants
    /\ tasks[t].fetch = "running"
    /\ LET d == disk[tasks[t].repo_id]
       IN  /\ IF new_file THEN d.files < MaxFiles ELSE d.bytes < MaxBytes
           /\ disk' = [disk EXCEPT ![tasks[t].repo_id] =
                          IF new_file THEN [d EXCEPT !.files = @ + 1, !.exists = TRUE]
                          ELSE [d EXCEPT !.bytes = @ + 1, !.exists = TRUE]]
    /\ UNCHANGED <<notApp, download_status, tasks>>

\* snapshot_download returns, or raises (download_exception[0] = e)
app_fetch_ends(t, outcome) ==
    /\ variant \in AppVariants
    /\ tasks[t].fetch = "running"
    /\ tasks' = [tasks EXCEPT ![t].fetch = outcome]
    /\ UNCHANGED <<notApp, download_status, disk>>

\* while thread.is_alive(): time.sleep(3)
app_loop_check(t) ==
    /\ variant \in AppVariants
    /\ tasks[t].pc = "loop"
    /\ tasks[t].fetch = "running" => tasks[t].ticks < MaxTicks
    /\ tasks' = [tasks EXCEPT ![t].pc = IF tasks[t].fetch = "running" THEN "scan" ELSE "join",
                              ![t].ticks = IF tasks[t].fetch = "running" THEN @ + 1 ELSE @]
    /\ UNCHANGED <<notApp, download_status, disk>>

\* one tick, first half: count the files, compute progress, and in byte mode
\* write downloaded_bytes
app_tick_scan(t) ==
    /\ variant \in AppVariants
    /\ tasks[t].pc = "scan"
    /\ LET d == disk[tasks[t].repo_id]
           byte_mode == tasks[t].use_byte_progress
           downloaded == IF byte_mode THEN d.bytes ELSE 0
           p == IF byte_mode
                THEN AppByteProgress(d.bytes, tasks[t].total_expected_bytes, d.files)
                ELSE FileCountProgress(tasks[t].progress, d.files, tasks[t].last_file_count)
       IN  /\ tasks' = [tasks EXCEPT ![t].pc = "write", ![t].progress = p,
                                     ![t].file_count = d.files]
           /\ download_status' =
                IF byte_mode
                THEN UpdateStatus(download_status, [downloaded_bytes |-> downloaded])
                ELSE download_status
    /\ UNCHANGED <<notApp, disk>>

\* one tick: rglob or a stat call raises inside the try block of the loop
app_tick_raises(t) ==
    /\ variant = "app_solo"
    /\ tasks[t].pc = "scan"
    /\ tasks' = [tasks EXCEPT ![t].pc = "caught"]
    /\ UNCHANGED <<notApp, download_status, disk>>

\* an except branch that gives the monitoring up
app_tick_caught_stops(t) ==
    /\ variant = "app_solo"
    /\ tasks[t].pc = "caught"
    /\ tasks' = [tasks EXCEPT ![t].pc = "join"]
    /\ UNCHANGED <<notApp, download_status, disk>>

\* the except branch of the loop: the error is printed, the loop goes on
app_tick_caught(t) ==
    /\ variant = "app_solo"
    /\ tasks[t].pc = "caught"
    /\ tasks' = [tasks EXCEPT ![t].pc = "loop"]
    /\ UNCHANGED <<notApp, download_status, disk>>

\* one tick, second half: the progress / 'downloading' write
app_tick_write(t) ==
    /\ variant \in AppVariants
    /\ tasks[t].pc = "write"
    /\ download_status' = UpdateStatus(download_status,
           [progress |-> tasks[t].progress, status |-> "downloading",
            current_file |-> "Downloading: ...", downloaded_files |-> tasks[t].file_count])
    /\ tasks' = [tasks EXCEPT ![t].pc = "loop", ![t].last_file_count = tasks[t].file_count,
                              ![t].file_count = 0]
    /\ UNCHANGED <<notApp, disk>>

\* a task whose except branch clears the destination directory
app_task_finish_cleaning(t, error_type) ==
    /\ variant \in AppVariants
    /\ tasks[t].pc = "join"
    /\ tasks[t].fetch # "returned"
    /\ download_status' =
         UpdateStatus(download_status,
             [progress |-> FromInt(0), status |-> "error",
              current_file |-> "Error: <e>"])
    /\ disk' = rmtree(disk, local_dir(tasks[t].repo_id))
    /\ tasks' = [tasks EXCEPT ![t] = IdleTask]
    /\ UNCHANGED notApp

\* a task that ends without a word
app_task_finish_silent(t, error_type) ==
    /\ variant \in AppVariants
    /\ tasks[t].pc = "join"
    /\ tasks' = [tasks EXCEPT ![t] = IdleTask]
    /\ UNCHANGED <<notApp, download_status, disk>>

\* after the loop: thread.join(); a recorded exception is raised and handled
\* by start_download_task, else the final scan and the 'completed' write
app_task_finish(t, error_type) ==
    /\ variant \in AppVariants
    /\ tasks[t].pc = "join"
    /\ download_status' =
         CASE tasks[t].fetch = "returned" ->
                UpdateStatus(download_status,
                    [progress |-> FromInt(100), status |-> "completed",
                     current_file |-> "Download completed!",
                     downloaded_bytes |-> calculate_downloaded_size(tasks[t].repo_id)])
           [] error_type = "HfHubHTTPError" ->
                UpdateStatus(download_status,
                    [progress |-> FromInt(0), status |-> "error",
                     current_file |-> "HuggingFace error: <e>"])
           [] OTHER ->
                UpdateStatus(download_status,
                    [progress |-> FromInt(0), status |-> "error",
                     current_file |-> "Error: <e>"])
    /\ tasks' = [tasks EXCEPT ![t] = IdleTask]
    /\ UNCHANGED <<notApp, disk>>

FetchOutcomes == {"returned", "raised"}

ErrorTypes == {"HfHubHTTPError", "Exception"}

---------------------------------------------------------------------------
\* download.py: start_download_task with simulated progress.

\* download.py: the module-level download_status
DownloadInitialStatus ==
    [progress |-> FromInt(0), status |-> "idle", current_file |-> "",
     downloaded_files |-> 0, total_files |-> 0, downloaded_size |-> 0,
     total_size |-> 0, repo_id |-> <<>>, start_time |-> "None", eta |-> "absent"]

IdleDl == [pc |-> "idle", repo_id |-> <<>>, progress |-> 0, fetch |-> "none"]

SimulatedStart == 20

SimulatedStep == 5

SubprocessStart == 30

SubprocessStep == 3

SubprocessCap == 90

SimulatedCap == 95

SubprocessDone == 95

Min(a, b) == IF a <= b THEN a ELSE b

\* the caller hands a request to start_download_task
dl_start(repo_id) ==
    /\ variant = "download"
    /\ dl.pc = "idle"
    /\ dl' = [IdleDl EXCEPT !.pc = "reset", !.repo_id = repo_id]
    /\ UNCHANGED <<notDownload, download_status, disk>>

\* start_download_task: "Reset status"
dl_reset ==
    /\ variant = "download"
    /\ dl.pc = "reset"
    /\ download_status' = UpdateStatus(download_status,
           [progress |-> FromInt(0), status |-> "starting", current_file |-> "",
            downloaded_files |-> 0, total_files |-> 0, downloaded_size |-> 0,
            total_size |-> 0, repo_id |-> dl.repo_id, start_time |-> "set",
            eta |-> "None"])
    /\ dl' = [dl EXCEPT !.pc = "mark"]
    /\ UNCHANGED <<notDownload, disk>>

\* start_download_task: os.makedirs, then the progress=5 write
dl_mark_downloading ==
    /\ variant = "download"
    /\ dl.pc = "mark"
    /\ download_status' = UpdateStatus(download_status,
           [progress |-> FromInt(5), status |-> "downloading",
            current_file |-> "Scanning repository..."])
    /\ disk' = makedirs(disk, dl.repo_id)
    /\ dl' = [dl EXCEPT !.pc = "phase1"]
    /\ UNCHANGED notDownload

\* _download_with_progress: "Phase 1: Initialize (10%)"
dl_phase1 ==
    /\ variant = "download"
    /\ dl.pc = "phase1"
    /\ download_status' = UpdateStatus(download_status,
           [progress |-> FromInt(10), status |-> "downloading",
            current_file |-> "Initializing download..."])
    /\ dl' = [dl EXCEPT !.pc = "phase2"]
    /\ UNCHANGED <<notDownload, disk>>

\* _download_with_progress: "Phase 2: Start download (20%)", then
\* download_thread.start(), which starts the fetch or raises RuntimeError
dl_phase2(thread_started) ==
    /\ variant = "download"
    /\ dl.pc = "phase2"
    /\ download_status' = UpdateStatus(download_status,
           [progress |-> FromInt(SimulatedStart), status |-> "downloading",
            current_file |-> "Connecting to repository..."])
    /\ dl' = IF thread_started
             THEN [dl EXCEPT !.pc = "loop", !.progress = SimulatedStart, !.fetch = "running"]
             ELSE [dl EXCEPT !.pc = "subprocess"]
    /\ UNCHANGED <<notDownload, disk>>

\* _actual_download / the child process: snapshot_download returns or raises
dl_fetch_ends(outcome) ==
    /\ variant = "download"
    /\ dl.fetch = "running"
    /\ dl' = [dl EXCEPT !.fetch = outcome]
    /\ UNCHANGED <<notDownload, download_status, disk>>

\* _download_with_progress: one turn of "while download_thread.is_alive() and
\* progress < 95", or leaving the loop
dl_loop ==
    /\ variant = "download"
    /\ dl.pc = "loop"
    /\ IF dl.fetch = "running" /\ dl.progress < SimulatedCap
       THEN LET p == Min(SimulatedCap, dl.progress + SimulatedStep)
            IN  /\ download_status' = UpdateStatus(download_status,
                       [progress |-> FromInt(p), status |-> "downloading",
                        current_file |-> "Downloading..."])
                /\ dl' = [dl EXCEPT !.progress = p]
       ELSE /\ dl' = [dl EXCEPT !.pc = "join"]
            /\ UNCHANGED download_status
    /\ UNCHANGED <<notDownload, disk>>

\* _download_with_progress: download_thread.join() returns once the thread has
\* ended, however it ended; then "Final progress update"
dl_join ==
    /\ variant = "download"
    /\ dl.pc = "join"
    /\ dl.fetch # "running"
    /\ download_status' = UpdateStatus(download_status,
           [progress |-> FromInt(100), status |-> "downloading",
            current_file |-> "Finalizing download..."])
    /\ dl' = [dl EXCEPT !.pc = "complete"]
    /\ UNCHANGED <<notDownload, disk>>

\* _download_with_subprocess: the progress=30 write, then Popen
dl_subprocess_start ==
    /\ variant = "download"
    /\ dl.pc = "subprocess"
    /\ download_status' = UpdateStatus(download_status,
           [progress |-> FromInt(SubprocessStart), status |-> "downloading",
            current_file |-> "Starting subprocess download..."])
    /\ dl' = [dl EXCEPT !.pc = "sub_loop", !.progress = SubprocessStart, !.fetch = "running"]
    /\ UNCHANGED <<notDownload, disk>>

\* _download_with_subprocess: one turn of "while proc.poll() is None and
\* progress < 90", or leaving the loop
dl_subprocess_loop ==
    /\ variant = "download"
    /\ dl.pc = "sub_loop"
    /\ IF dl.fetch = "running" /\ dl.progress < SubprocessCap
       THEN LET p == Min(SubprocessCap, dl.progress + SubprocessStep)
            IN  /\ download_status' = UpdateStatus(download_status,
                       [progress |-> FromInt(p), status |-> "downloading",
                        current_file |-> "Processing..."])
                /\ dl' = [dl EXCEPT !.progress = p]
       ELSE /\ dl' = [dl EXCEPT !.pc = "communicate"]
            /\ UNCHANGED download_status
    /\ UNCHANGED <<notDownload, disk>>

\* a wait that starts the child again when it failed
dl_subprocess_wait_retrying ==
    /\ variant = "download"
    /\ dl.pc = "communicate"
    /\ dl.fetch # "running"
    /\ IF dl.fetch = "raised"
       THEN /\ dl' = [dl EXCEPT !.pc = "sub_loop", !.fetch = "running"]
            /\ UNCHANGED download_status
       ELSE /\ download_status' = UpdateStatus(download_status,
                   [progress |-> FromInt(SubprocessDone), status |-> "downloading",
                    current_file |-> "Download completed, finalizing..."])
            /\ dl' = [dl EXCEPT !.pc = "complete"]
    /\ UNCHANGED <<notDownload, disk>>

\* _download_with_subprocess: proc.communicate(); a non-zero return code raises,
\* and start_download_task's handler writes the error; else the progress=95 write
dl_subprocess_wait ==
    /\ variant = "download"
    /\ dl.pc = "communicate"
    /\ dl.fetch # "running"
    /\ IF dl.fetch = "raised"
       THEN /\ download_status' = UpdateStatus(download_status,
                   [progress |-> FromInt(0), status |-> "error",
                    current_file |-> "Download failed: <stderr>"])
            /\ dl' = IdleDl
       ELSE /\ download_status' = UpdateStatus(download_status,
                   [progress |-> FromInt(SubprocessDone), status |-> "downloading",
                    current_file |-> "Download completed, finalizing..."])
            /\ dl' = [dl EXCEPT !.pc = "complete"]
    /\ UNCHANGED <<notDownload, disk>>

\* start_download_task: the 'completed' write
dl_complete ==
    /\ variant = "download"
    /\ dl.pc = "complete"
    /\ download_status' = UpdateStatus(download_status,
           [progress |-> FromInt(100), status |-> "completed",
            current_file |-> "Download completed"])
    /\ dl' = IdleDl
    /\ UNCHANGED <<notDownload, disk>>

\* cancel_download: download_status.update, with no ETA and no emit
cancel_download ==
    /\ variant = "download"
    /\ download_status.status = "downloading"
    /\ download_status' = [download_status EXCEPT !.progress = FromInt(0),
                               !.status = "cancelled",
                               !.current_file = "Download cancelled"]
    /\ UNCHANGED <<notDownload, dl, disk>>

---------------------------------------------------------------------------
\* app_multiprocess.py, download_manager.py, monitor_service.py: three
\* processes and the web server, talking through four queues.

\* AppState.__init__ ("eta" and "monitor_time" are not keys yet)
SharedInitialStatus ==
    [progress |-> FromInt(0), status |-> "idle", current_file |-> "",
     downloaded_files |-> 0, downloaded_bytes |-> 0, total_bytes |-> 0,
     repo_id |-> <<>>, start_time |-> "None", eta |-> "absent",
     monitor_time |-> "absent"]

MaxRequests == 1

MaxStatusQueue == 2

\* the multi-process program, and its web server and download manager with
\* several tasks in the queue
MpVariants == {"multiprocess", "manager", "responses"}

MaxManagerRequests == 3

MaxResponseRequests == 2

RequestLimit ==
    CASE variant = "manager" -> MaxManagerRequests
      [] variant = "responses" -> MaxResponseRequests
      [] OTHER -> MaxRequests

NoTask == [task_id |-> 0, type |-> "none", repo_id |-> <<>>, model_path |-> <<>>]

IdleDm == [pc |-> "idle", task |-> NoTask, success |-> FALSE, fetch |-> "none"]

NoMonitor == [active |-> FALSE, repo_id |-> <<>>, total_expected_bytes |-> 0,
              caught |-> FALSE]

IdleMon == NoMonitor

IdleSp == [pc |-> "status", fields |-> <<>>]

\* AppState.add_task, task_queue.put, and the start_monitor request
Submit(repo_id) ==
    LET task == [task_id |-> next_task_id, type |-> "download", repo_id |-> repo_id,
                 model_path |-> <<>>]
    IN  /\ next_task_id <= RequestLimit
        /\ pending_tasks' = pending_tasks \cup {task}
        /\ task_queue' = Append(task_queue, task)
        /\ monitor_requests_queue' = Append(monitor_requests_queue,
               [type |-> "start_monitor", repo_id |-> repo_id,
                total_expected_bytes |-> 0])
        /\ next_task_id' = next_task_id + 1

\* app_multiprocess.start_download: what POST /api/download answers
mp_start_download_reply(repo_id) ==
    IF repo_id = <<>>
    THEN Reply(400, "Repository ID is required")
    ELSE IF ~validate_repo_id(Str(repo_id))
    THEN Reply(400, "Repository ID should be in format: username/model-name")
    ELSE IF download_status.status = "downloading"
    THEN Reply(400, "Download already in progress")
    ELSE Reply(200, "Download started")

\* a handler that marks the record itself when it accepts the request
mp_start_download_writing(repo_id) ==
    /\ variant \in MpVariants
    /\ IF mp_start_download_reply(repo_id).code = 200
       THEN /\ Submit(repo_id)
            /\ download_status' = [download_status EXCEPT !.status = "starting"]
       ELSE UNCHANGED <<pending_tasks, task_queue, monitor_requests_queue, next_task_id,
                        download_status>>
    /\ UNCHANGED <<notMultiprocess, disk, status_queue, response_queue, dm, mon, sp>>

\* POST /api/download
mp_start_download(repo_id) ==
    /\ variant \in MpVariants
    /\ IF mp_start_download_reply(repo_id).code = 200
       THEN Submit(repo_id)
       ELSE UNCHANGED <<pending_tasks, task_queue, monitor_requests_queue, next_task_id>>
    /\ UNCHANGED <<notMultiprocess, download_status, disk, status_queue, response_queue,
                   dm, mon, sp>>

\* app_multiprocess.api_update_model: what POST /api/update answers
mp_api_update_model_reply(repo_id) ==
    IF ~validate_repo_id(Str(repo_id))
    THEN Reply(400, "Invalid repository ID")
    ELSE Reply(200, "Update started")

\* POST /api/update
mp_api_update_model(repo_id) ==
    /\ variant \in MpVariants
    /\ IF mp_api_update_model_reply(repo_id).code = 200
       THEN Submit(repo_id)
       ELSE UNCHANGED <<pending_tasks, task_queue, monitor_requests_queue, next_task_id>>
    /\ UNCHANGED <<notMultiprocess, download_status, disk, status_queue, response_queue,
                   dm, mon, sp>>

\* app_multiprocess.api_delete_model: what POST /api/delete answers
mp_api_delete_model_reply(model_path) ==
    IF ~validate_model_path(Str(model_path))
    THEN Reply(400, "Invalid model path")
    ELSE Reply(200, "Delete started")

\* POST /api/delete: the delete task goes to the download manager's queue
mp_api_delete_model(model_path) ==
    /\ variant \in {"manager", "responses"}
    /\ IF mp_api_delete_model_reply(model_path).code = 200
       THEN LET task == [task_id |-> next_task_id, type |-> "delete", repo_id |-> <<>>,
                         model_path |-> model_path]
            IN  /\ next_task_id <= RequestLimit
                /\ pending_tasks' = pending_tasks \cup {task}
                /\ task_queue' = Append(task_queue, task)
                /\ next_task_id' = next_task_id + 1
       ELSE UNCHANGED <<pending_tasks, task_queue, next_task_id>>
    /\ UNCHANGED <<notMultiprocess, download_status, disk, status_queue, response_queue,
                   monitor_requests_queue, dm, mon, sp>>

\* download_manager.perform_delete on the directories of the models
dm_perform_delete(d, model_path) ==
    IF validate_model_path(Str(model_path)) /\ path_exists(d, model_path)
    THEN [success |-> TRUE, disk |-> rmtree(d, model_path)]
    ELSE [success |-> FALSE, disk |-> d]

\* download_manager_process: what the loop does with the task it has taken: a
\* delete is carried out and answered; a download is validated and
\* perform_download runs up to its first status_queue.put ('starting')
dm_dispatch(task) ==
    IF task.type = "delete"
    THEN /\ disk' = dm_perform_delete(disk, task.model_path).disk
         /\ response_queue' = Append(response_queue,
                [task_id |-> task.task_id,
                 success |-> dm_perform_delete(disk, task.model_path).success])
         /\ UNCHANGED <<dm, status_queue>>
    ELSE IF ~validate_repo_id(Str(task.repo_id))
    THEN /\ response_queue' = Append(response_queue,
                [task_id |-> task.task_id, success |-> FALSE])
         /\ UNCHANGED <<dm, status_queue, disk>>
    ELSE /\ status_queue' = Append(status_queue,
                <<<<"progress", FromInt(0)>>, <<"status", "starting">>,
                  <<"current_file", "Initializing download...">>,
                  <<"downloaded_files", 0>>, <<"downloaded_bytes", 0>>,
                  <<"total_bytes", 0>>, <<"repo_id", task.repo_id>>,
                  <<"start_time", "set">>>>)
         /\ dm' = [IdleDm EXCEPT !.pc = "mark", !.task = task]
         /\ UNCHANGED <<response_queue, disk>>

\* a manager that serves the newest task first
dm_take_newest ==
    /\ variant \in MpVariants
    /\ dm.pc = "idle"
    /\ task_queue # <<>>
    /\ task_queue' = SubSeq(task_queue, 1, Len(task_queue) - 1)
    /\ dm_dispatch(task_queue[Len(task_queue)])
    /\ UNCHANGED <<notMultiprocess, download_status, monitor_requests_queue,
                   pending_tasks, next_task_id, mon, sp>>

\* download_manager_process: task_queue.get() and the branch on the task's type
dm_take ==
    /\ variant \in MpVariants
    /\ dm.pc = "idle"
    /\ task_queue # <<>>
    /\ task_queue' = Tail(task_queue)
    /\ dm_dispatch(Head(task_queue))
    /\ UNCHANGED <<notMultiprocess, download_status, monitor_requests_queue,
                   pending_tasks, next_task_id, mon, sp>>

\* perform_download: os.makedirs, then the progress=5 / 'downloading' put
dm_mark_downloading ==
    /\ variant \in MpVariants
    /\ dm.pc = "mark"
    /\ status_queue' = Append(status_queue,
           <<<<"progress", FromInt(5)>>, <<"status", "downloading">>,
             <<"current_file", "Getting repository information...">>>>)
    /\ disk' = makedirs(disk, dm.task.repo_id)
    /\ dm' = [dm EXCEPT !.pc = "probe"]
    /\ UNCHANGED <<notMultiprocess, download_status, task_queue, response_queue,
                   monitor_requests_queue, pending_tasks, next_task_id, mon, sp>>

\* perform_download: get_repo_info_with_patterns answers total (0 when the
\* registry query fails), and the put that follows
dm_probe(total) ==
    /\ variant \in MpVariants
    /\ dm.pc = "probe"
    /\ status_queue' = Append(status_queue,
           IF total > 0
           THEN <<<<"total_bytes", total>>, <<"current_file", "Expected: ...">>>>
           ELSE <<<<"current_file", "Starting download...">>>>)
    /\ dm' = [dm EXCEPT !.pc = "launch"]
    /\ UNCHANGED <<notMultiprocess, download_status, disk, task_queue, response_queue,
                   monitor_requests_queue, pending_tasks, next_task_id, mon, sp>>

\* perform_download: the {'status': 'downloading'} put, then snapshot_download
\* is called
dm_launch ==
    /\ variant \in MpVariants
    /\ dm.pc = "launch"
    /\ status_queue' = Append(status_queue, <<<<"status", "downloading">>>>)
    /\ dm' = [dm EXCEPT !.pc = "fetch", !.fetch = "running"]
    /\ UNCHANGED <<notMultiprocess, download_status, disk, task_queue, response_queue,
                   monitor_requests_queue, pending_tasks, next_task_id, mon, sp>>

\* snapshot_download writing bytes into /models/<repo_id> and the cache (the
\* monitor and the final scan read sizes only, never the number of files)
dm_fetch_writes ==
    /\ variant \in MpVariants
    /\ dm.fetch = "running"
    /\ disk[dm.task.repo_id].bytes < MaxBytes
    /\ disk' = [disk EXCEPT ![dm.task.repo_id].bytes = @ + 1,
                             ![dm.task.repo_id].exists = TRUE]
    /\ UNCHANGED <<notMultiprocess, download_status, mpVars>>

\* perform_download: snapshot_download returns, then "Calculate final size"
\* and the 'completed' put; or it raises, and the handler puts 'error'
dm_fetch_ends(outcome, error_type) ==
    /\ variant \in MpVariants
    /\ dm.fetch = "running"
    /\ status_queue' = Append(status_queue,
           IF outcome = "returned"
           THEN <<<<"progress", FromInt(100)>>, <<"status", "completed">>,
                  <<"current_file", "Download completed!">>,
                  <<"downloaded_bytes", total_downloaded(dm.task.repo_id)>>>>
           ELSE <<<<"progress", FromInt(0)>>, <<"status", "error">>,
                  <<"current_file", IF error_type = "HfHubHTTPError"
                                    THEN "HuggingFace error: <e>" ELSE "Error: <e>">>>>)
    /\ dm' = [dm EXCEPT !.pc = "respond", !.fetch = outcome,
                        !.success = (outcome = "returned")]
    /\ UNCHANGED <<notMultiprocess, download_status, disk, task_queue, response_queue,
                   monitor_requests_queue, pending_tasks, next_task_id, mon, sp>>

\* a manager that goes on to the next task without answering
dm_respond_silent ==
    /\ variant \in MpVariants
    /\ dm.pc = "respond"
    /\ dm' = IdleDm
    /\ UNCHANGED <<notMultiprocess, download_status, disk, task_queue, status_queue,
                   response_queue, monitor_requests_queue, pending_tasks, next_task_id,
                   mon, sp>>

\* download_manager_process: response_queue.put after perform_download returned
dm_respond ==
    /\ variant \in MpVariants
    /\ dm.pc = "respond"
    /\ response_queue' = Append(response_queue,
           [task_id |-> dm.task.task_id, success |-> dm.success])
    /\ dm' = IdleDm
    /\ UNCHANGED <<notMultiprocess, download_status, disk, task_queue, status_queue,
                   monitor_requests_queue, pending_tasks, next_task_id, mon, sp>>

\* what one monitor request does to current_monitor
MonitorAfter(current_monitor, request) ==
    IF request.type = "start_monitor"
    THEN [active |-> TRUE, repo_id |-> request.repo_id,
          total_expected_bytes |-> request.total_expected_bytes, caught |-> FALSE]
    ELSE NoMonitor

\* the status update one monitoring pass sends
MonitorUpdate(current_monitor) ==
    LET downloaded_bytes == disk[current_monitor.repo_id].bytes
    IN  <<<<"progress", MonitorProgress(downloaded_bytes, current_monitor.total_expected_bytes)>>,
          <<"status", "downloading">>, <<"current_file", "Downloading/Processing...">>,
          <<"downloaded_bytes", downloaded_bytes>>, <<"monitor_time", "set">>>>

\* monitoring_service_process: one turn of the loop: at most one request from
\* monitor_requests_queue, then a monitoring pass if a monitor is active
mon_iteration ==
    /\ variant = "multiprocess"
    /\ ~mon.caught
    /\ LET current_monitor ==
               IF monitor_requests_queue # <<>>
               THEN MonitorAfter(mon, Head(monitor_requests_queue))
               ELSE mon
       IN  /\ monitor_requests_queue # <<>> \/ mon.active
           /\ monitor_requests_queue' =
                  IF monitor_requests_queue # <<>> THEN Tail(monitor_requests_queue) ELSE <<>>
           /\ mon' = current_monitor
           /\ IF current_monitor.active
              THEN /\ Len(status_queue) < MaxStatusQueue
                   /\ status_queue' = Append(status_queue, MonitorUpdate(current_monitor))
              ELSE UNCHANGED status_queue
    /\ UNCHANGED <<notMultiprocess, download_status, disk, task_queue, response_queue,
                   pending_tasks, next_task_id, dm, sp>>

\* monitoring_service_process: a loop turn whose monitoring pass raises: the
\* request, if any, has been taken, no status update is sent
mon_iteration_raises ==
    /\ variant = "multiprocess"
    /\ ~mon.caught
    /\ LET current_monitor ==
               IF monitor_requests_queue # <<>>
               THEN MonitorAfter(mon, Head(monitor_requests_queue))
               ELSE mon
       IN  /\ current_monitor.active
           /\ monitor_requests_queue' =
                  IF monitor_requests_queue # <<>> THEN Tail(monitor_requests_queue) ELSE <<>>
           /\ mon' = [current_monitor EXCEPT !.caught = TRUE]
    /\ UNCHANGED <<notMultiprocess, download_status, disk, task_queue, status_queue,
                   response_queue, pending_tasks, next_task_id, dm, sp>>

\* monitoring_service_process: the except branch of the loop: the error is
\* printed, time.sleep(5), and the loop goes on
mon_caught ==
    /\ variant = "multiprocess"
    /\ mon.caught
    /\ mon' = [mon EXCEPT !.caught = FALSE]
    /\ UNCHANGED <<notMultiprocess, download_status, disk, task_queue, status_queue,
                   response_queue, monitor_requests_queue, pending_tasks, next_task_id,
                   dm, sp>>

\* status_update_processor: status_queue.get(timeout=1) and the first
\* self.download_status[key] = value of AppState.update_status
sp_take_status ==
    /\ variant \in MpVariants
    /\ sp.pc = "status"
    /\ status_queue # <<>>
    /\ LET update == Head(status_queue)
       IN  /\ status_queue' = Tail(status_queue)
           /\ download_status' = [download_status EXCEPT ![update[1][1]] = update[1][2]]
           /\ sp' = [pc |-> "apply", fields |-> Tail(update)]
    /\ UNCHANGED <<notMultiprocess, disk, task_queue, response_queue,
                   monitor_requests_queue, pending_tasks, next_task_id, dm, mon>>

\* AppState.update_status: the next self.download_status[key] = value
sp_apply_field ==
    /\ variant \in MpVariants
    /\ sp.pc = "apply"
    /\ sp.fields # <<>>
    /\ download_status' = [download_status EXCEPT ![sp.fields[1][1]] = sp.fields[1][2]]
    /\ sp' = [sp EXCEPT !.fields = Tail(sp.fields)]
    /\ UNCHANGED <<notMultiprocess, disk, task_queue, status_queue, response_queue,
                   monitor_requests_queue, pending_tasks, next_task_id, dm, mon>>

\* AppState.update_status: "Calculate ETA"
sp_eta ==
    /\ variant \in MpVariants
    /\ sp.pc = "apply"
    /\ sp.fields = <<>>
    /\ download_status' = UpdateStatus(download_status, [x \in {} |-> 0])
    /\ sp' = [sp EXCEPT !.pc = "response"]
    /\ UNCHANGED <<notMultiprocess, disk, task_queue, status_queue, response_queue,
                   monitor_requests_queue, pending_tasks, next_task_id, dm, mon>>

\* status_update_processor: status_queue.get times out
sp_status_timeout ==
    /\ variant \in MpVariants
    /\ sp.pc = "status"
    /\ status_queue = <<>>
    /\ sp' = [sp EXCEPT !.pc = "response"]
    /\ UNCHANGED <<notMultiprocess, download_status, disk, task_queue, status_queue,
                   response_queue, monitor_requests_queue, pending_tasks, next_task_id,
                   dm, mon>>

\* status_update_processor: response_queue.get_nowait() and the cleanup, or
\* nothing when no response waits
sp_response ==
    /\ variant \in MpVariants
    /\ sp.pc = "response"
    /\ IF response_queue = <<>>
       THEN UNCHANGED <<response_queue, pending_tasks, monitor_requests_queue>>
       ELSE LET r == Head(response_queue)
                known == {task \in pending_tasks : task.task_id = r.task_id}
            IN  /\ response_queue' = Tail(response_queue)
                /\ pending_tasks' = pending_tasks \ known
                /\ monitor_requests_queue' =
                       IF \E task \in known : task.type = "download" /\ r.success
                       THEN Append(monitor_requests_queue,
                                [type |-> "stop_monitor", repo_id |-> <<>>,
                                 total_expected_bytes |-> 0])
                       ELSE monitor_requests_queue
    /\ sp' = [sp EXCEPT !.pc = "status"]
    /\ UNCHANGED <<notMultiprocess, download_status, disk, task_queue, status_queue,
                   next_task_id, dm, mon>>

IdleApp == tasks = NoTasks

IdleDownload == dl = IdleDl

IdleMultiprocess ==
    /\ task_queue = <<>>
    /\ status_queue = <<>>
    /\ response_queue = <<>>
    /\ monitor_requests_queue = <<>>
    /\ pending_tasks = {}
    /\ next_task_id = 1
    /\ dm = IdleDm
    /\ mon = IdleMon
    /\ sp = IdleSp

InitApp ==
    /\ variant = "app"
    /\ fn_call = NoCall
    /\ download_status = AppInitialStatus
    /\ disk = EmptyDisk
    /\ IdleApp /\ IdleDownload /\ IdleMultiprocess

InitAppSolo ==
    /\ variant = "app_solo"
    /\ fn_call = NoCall
    /\ download_status = AppInitialStatus
    /\ disk = EmptyDisk
    /\ IdleApp /\ IdleDownload /\ IdleMultiprocess

InitDownload ==
    /\ variant = "download"
    /\ fn_call = NoCall
    /\ download_status = DownloadInitialStatus
    /\ disk = EmptyDisk
    /\ IdleApp /\ IdleDownload /\ IdleMultiprocess

InitMultiprocess ==
    /\ variant = "multiprocess"
    /\ fn_call = NoCall
    /\ download_status = SharedInitialStatus
    /\ disk = EmptyDisk
    /\ IdleApp /\ IdleDownload /\ IdleMultiprocess

NextApp ==
    \/ \E r \in RequestIds : app_start_download(r)
    \/ \E r \in RequestIds : app_api_update_model(r)
    \/ \E t \in TaskIds : app_task_reset(t)
    \/ \E t \in TaskIds : app_task_mark_downloading(t)
    \/ \E t \in TaskIds : \E total \in ProbeTotals \cup {0} : app_task_probe(t, total)
    \/ \E t \in TaskIds : \E new_file \in BOOLEAN : app_fetch_writes(t, new_file)
    \/ \E t \in TaskIds : \E o \in FetchOutcomes : app_fetch_ends(t, o)
    \/ \E t \in TaskIds : app_loop_check(t)
    \/ \E t \in TaskIds : app_tick_scan(t)
    \/ \E t \in TaskIds : app_tick_write(t)
    \/ \E t \in TaskIds : \E e \in ErrorTypes : app_task_finish(t, e)

NextAppSolo ==
    \/ NextApp
    \/ \E t \in TaskIds : app_tick_raises(t)
    \/ \E t \in TaskIds : app_tick_caught(t)
    \/ \E p \in DeletePaths : app_api_delete_model(p)

NextDownload ==
    \/ \E r \in ValidRepos : dl_start(r)
    \/ dl_reset
    \/ dl_mark_downloading
    \/ dl_phase1
    \/ \E started \in BOOLEAN : dl_phase2(started)
    \/ \E o \in FetchOutcomes : dl_fetch_ends(o)
    \/ dl_loop
    \/ dl_join
    \/ dl_subprocess_start
    \/ dl_subprocess_loop
    \/ dl_subprocess_wait
    \/ dl_complete
    \/ cancel_download

NextMultiprocess ==
    \/ \E r \in RequestIds : mp_start_download(r)
    \/ \E r \in RequestIds : mp_api_update_model(r)
    \/ dm_take
    \/ dm_mark_downloading
    \/ \E total \in ProbeTotals \cup {0} : dm_probe(total)
    \/ dm_launch
    \/ dm_fetch_writes
    \/ \E o \in FetchOutcomes : \E e \in ErrorTypes : dm_fetch_ends(o, e)
    \/ dm_respond
    \/ mon_iteration
    \/ sp_take_status
    \/ sp_apply_field
    \/ sp_eta
    \/ sp_status_timeout
    \/ sp_response
    \/ mon_iteration_raises
    \/ mon_caught

\* the web server's handlers that enqueue, and the download manager
NextManager ==
    \/ \E r \in RequestIds : mp_start_download(r)
    \/ \E r \in RequestIds : mp_api_update_model(r)
    \/ \E p \in DeletePaths : mp_api_delete_model(p)
    \/ dm_take
    \/ dm_mark_downloading
    \/ \E total \in ProbeTotals \cup {0} : dm_probe(total)
    \/ dm_launch
    \/ dm_fetch_writes
    \/ \E o \in FetchOutcomes : \E e \in ErrorTypes : dm_fetch_ends(o, e)
    \/ dm_respond

InitManager ==
    /\ variant = "manager"
    /\ fn_call = NoCall
    /\ download_status = SharedInitialStatus
    /\ disk = EmptyDisk
    /\ IdleApp /\ IdleDownload /\ IdleMultiprocess

SpecManager == InitManager /\ [][NextManager]_vars

InitResponses ==
    /\ variant = "responses"
    /\ fn_call = NoCall
    /\ download_status = SharedInitialStatus
    /\ disk = EmptyDisk
    /\ IdleApp /\ IdleDownload /\ IdleMultiprocess

\* the download manager sits in task_queue.get() and a task is there
dm_take_ready == variant \in MpVariants /\ dm.pc = "idle" /\ task_queue # <<>>

\* the steps of the download manager's process once it has taken a task
dm_step ==
    \/ dm_mark_downloading
    \/ \E total \in ProbeTotals \cup {0} : dm_probe(total)
    \/ dm_launch
    \/ dm_respond

\* the steps of the status update processor
sp_step ==
    \/ sp_take_status
    \/ sp_apply_field
    \/ sp_eta
    \/ sp_status_timeout
    \/ sp_response

\* the web server's enqueueing handlers, the download manager and the status
\* update processor, each process scheduled again and again, every bulk fetch
\* ending
SpecResponses ==
    /\ InitResponses
    /\ [][NextManager \/ sp_step]_vars
    /\ ([]<>~dm_take_ready) \/ ([]<><<dm_take>>_vars)
    /\ WF_vars(dm_step)
    /\ WF_vars(\E o \in FetchOutcomes : \E e \in ErrorTypes : dm_fetch_ends(o, e))
    /\ WF_vars(sp_step)

SpecApp == InitApp /\ [][NextApp]_vars

SpecAppSolo == InitAppSolo /\ [][NextAppSolo]_vars

SpecDownload == InitDownload /\ [][NextDownload]_vars

SpecMultiprocess == InitMultiprocess /\ [][NextMultiprocess]_vars

\* every program of the repository
\* the steps of the thread that runs start_download_task for slot t
app_task_step(t) ==
    \/ app_task_reset(t)
    \/ app_task_mark_downloading(t)
    \/ \E total \in ProbeTotals \cup {0} : app_task_probe(t, total)
    \/ app_loop_check(t)
    \/ app_tick_scan(t)
    \/ app_tick_raises(t)
    \/ app_tick_caught(t)
    \/ app_tick_write(t)
    \/ \E e \in ErrorTypes : app_task_finish(t, e)

\* the steps of download.py's start_download_task
dl_task_step ==
    \/ dl_reset
    \/ dl_mark_downloading
    \/ dl_phase1
    \/ \E started \in BOOLEAN : dl_phase2(started)
    \/ dl_loop
    \/ dl_join
    \/ dl_subprocess_start
    \/ dl_subprocess_loop
    \/ dl_subprocess_wait
    \/ dl_complete

\* threads that are scheduled again and again, and a bulk fetch that
\* eventually returns or raises
Fairness ==
    /\ \A t \in TaskIds : WF_vars(app_task_step(t))
    /\ \A t \in TaskIds : WF_vars(\E o \in FetchOutcomes : app_fetch_ends(t, o))
    /\ WF_vars(dl_task_step)
    /\ WF_vars(\E o \in FetchOutcomes : dl_fetch_ends(o))

\* app.py (one transfer at a time) and download.py under fair scheduling
SpecFair ==
    /\ InitAppSolo \/ InitDownload
    /\ [][NextAppSolo \/ NextDownload]_vars
    /\ Fairness

Init == InitApp \/ InitAppSolo \/ InitDownload \/ InitMultiprocess

Next == NextAppSolo \/ NextDownload \/ NextMultiprocess

Spec == Init /\ [][Next]_vars

---------------------------------------------------------------------------
\* The pure functions, applied to inputs drawn from bounded sets.

MaxLen == 4

Chars == {"a", "/", " ", "\t"}

RECURSIVE StringsUpTo(_)
StringsUpTo(k) ==
    IF k = 0 THEN {<<>>}
    ELSE LET shorter == StringsUpTo(k - 1)
         IN  shorter \cup {Append(s, c) : s \in {t \in shorter : Len(t) = k - 1}, c \in Chars}

RepoIdInputs == {Str(s) : s \in StringsUpTo(MaxLen)} \cup {NoneValue, IntValue}

MaxPathLen == 7

PathChars == {"/", ".", "models", "x"}

RECURSIVE PathsUpTo(_)
PathsUpTo(k) ==
    IF k = 0 THEN {<<>>}
    ELSE LET shorter == PathsUpTo(k - 1)
         IN  shorter \cup {Append(s, c) : s \in {t \in shorter : Len(t) = k - 1}, c \in PathChars}

PathInputs == {Str(s) : s \in PathsUpTo(MaxPathLen)} \cup {NoneValue, IntValue}

MaxDeletePathLen == 5

DeletePathInputs == {Str(s) : s \in PathsUpTo(MaxDeletePathLen)} \cup {NoneValue, IntValue}

\* file_patterns of delete_specific_files: none, or the one that matches "f"
PatternLists == {<<>>, <<<<"f">>>>}

DeleteEntryPoints ==
    {"delete_model", "perform_delete", "delete_model_task", "delete_model_func"}

Shard1of2 == <<"model", "-", "1", "-", "of", "-", "2", ".safetensors">>

Shard2of2 == <<"model", "-", "2", "-", "of", "-", "2", ".safetensors">>

Shard1of3 == <<"model", "-", "1", "-", "of", "-", "3", ".safetensors">>

WeightsGguf == <<"weights", ".gguf">>

\* the file names a directory of /models may hold
FileNames ==
    {Shard1of2, Shard2of2, Shard1of3, WeightsGguf,
     <<"pytorch_model", "-", "1", "-", "of", "-", "2", ".bin">>,
     <<"pytorch_model", ".bin">>,
     <<"-", "1", "-", "of", "-", "2", ".safetensors">>,
     <<"notes", ".txt">>}

\* the shards <base>-<i>-of-<n><ext> a directory may hold
Shards ==
    [base : {"model", "pytorch_model"}, part : {"1", "2"}, total : {"2", "3"},
     ext : ModelExtensions]

\* f"{base}-{part}-of-{total}{ext}"
ShardName(shard) ==
    <<shard.base, "-", shard.part, "-", "of", "-", shard.total, shard.ext>>

\* two different shards of one directory, in the order os.walk gives them
ShardPairs == {pair \in Shards \X Shards : pair[1] # pair[2]}

MaxSiblings == 2

\* the files of a repository as the registry lists them: a registry file may
\* come without a size, or be empty
Siblings ==
    {f \in [rfilename : {<<"q", "4">>, <<"q", "8">>}, has_size : BOOLEAN, size : 0..2] :
        ~f.has_size => f.size = 0}

RECURSIVE SiblingsUpTo(_)
SiblingsUpTo(k) ==
    IF k = 0 THEN {<<>>}
    ELSE LET shorter == SiblingsUpTo(k - 1)
         IN  shorter \cup {Append(l, f) : l \in {m \in shorter : Len(m) = k - 1},
                                          f \in Siblings}

QuantPatterns == {<<>>, <<"q", "4">>, <<"8">>}

RepoInfoInputs ==
    [siblings : SiblingsUpTo(MaxSiblings), quant_pattern : QuantPatterns, raises : BOOLEAN]

MaxKeyIdLen == 4

KeyIdChars == {"a", "/", "-"}

RECURSIVE KeyIdsUpTo(_)
KeyIdsUpTo(k) ==
    IF k = 0 THEN {<<>>}
    ELSE LET shorter == KeyIdsUpTo(k - 1)
         IN  shorter \cup {Append(s, c) : s \in {t \in shorter : Len(t) = k - 1},
                                          c \in KeyIdChars}

\* the repository that is scanned and the repository whose blobs the cache holds
CacheScanInputs == [repo_id : KeyIdsUpTo(MaxKeyIdLen), owner : KeyIdsUpTo(MaxKeyIdLen)]

MaxMigrated == 2

DirEntries ==
    {e \in [kind : {"regular", "symlink", "hardlink"}, content : {"weights"},
            dangling : BOOLEAN, copy_fails : BOOLEAN] :
        e.dangling => e.kind = "symlink"}

RECURSIVE DirEntriesUpTo(_)
DirEntriesUpTo(k) ==
    IF k = 0 THEN {<<>>}
    ELSE LET shorter == DirEntriesUpTo(k - 1)
         IN  shorter \cup {Append(l, e) : l \in {m \in shorter : Len(m) = k - 1},
                                          e \in DirEntries}

MaxDirFiles == 3

MaxFileSize == 2

\* the listings of a directory: distinct names in the order os.walk gives them
RECURSIVE ListingsUpTo(_)
ListingsUpTo(k) ==
    IF k = 0 THEN {<<>>}
    ELSE LET shorter == ListingsUpTo(k - 1)
         IN  shorter \cup
             {Append(l, [name |-> n, size_bytes |-> b]) :
                 l \in {m \in shorter : Len(m) = k - 1},
                 n \in FileNames, b \in 1..MaxFileSize}

Listings ==
    {l \in ListingsUpTo(MaxDirFiles) :
        \A i, j \in 1..Len(l) : i # j => l[i].name # l[j].name}

ParentDir == "b"

MaxRaceFiles == 2

MaxScanFiles == 2

ScanFiles == [size_bytes : 1..MaxFileSize, readable : BOOLEAN]

RECURSIVE ScanFilesUpTo(_)
ScanFilesUpTo(k) ==
    IF k = 0 THEN {<<>>}
    ELSE LET shorter == ScanFilesUpTo(k - 1)
         IN  shorter \cup {Append(l, f) : l \in {m \in shorter : Len(m) = k - 1}, f \in ScanFiles}

RepoXB == <<"x", "/", "b">>

MaxDotIdLen == 4

DotIdChars == {"a", "/", "."}

RECURSIVE DotIdsUpTo(_)
DotIdsUpTo(k) ==
    IF k = 0 THEN {<<>>}
    ELSE LET shorter == DotIdsUpTo(k - 1)
         IN  shorter \cup {Append(s, c) : s \in {t \in shorter : Len(t) = k - 1},
                                          c \in DotIdChars}

\* identifiers with '.' and '..' parts
DotIdInputs == DotIdsUpTo(MaxDotIdLen)

\* the files below local_dir, the directory in the cache, the repository
SizeInputs ==
    [local_files : ScanFilesUpTo(MaxScanFiles),
     cache : [name : {cache_repo_dir(RepoAB), cache_repo_dir(RepoXB)},
              files : ScanFilesUpTo(MaxScanFiles)],
     repo_id : {RepoAB, RepoXB}]

\* a listing, the name of the file of it that vanishes, and when
RaceInputs ==
    UNION {{[files |-> l, name |-> l[i].name, moment |-> m] :
                i \in 1..Len(l), m \in Moments} :
           l \in {k \in Listings : Len(k) <= MaxRaceFiles}}

EstimateBytes == {0, 10000, 600000, 1000000, 1200000}

EstimateTotals == {0, 1000000}

MaxFileCount == 2

EstimateInputs ==
    [downloaded_bytes : EstimateBytes, total_expected_bytes : EstimateTotals,
     file_count : 0..MaxFileCount]

InitFunctions ==
    /\ variant = "functions"
    /\ download_status = AppInitialStatus
    /\ disk = EmptyDisk
    /\ IdleApp /\ IdleDownload /\ IdleMultiprocess
    /\ \/ \E v \in RepoIdInputs :
            fn_call = [fn |-> "validate_repo_id", arg |-> v, done |-> FALSE, ret |-> FALSE]
       \/ \E e \in EstimateInputs :
            fn_call = [fn |-> "app_tick", arg |-> e, done |-> FALSE, ret |-> FromInt(0)]
       \/ \E e \in EstimateInputs :
            fn_call = [fn |-> "monitor_tick", arg |-> e, done |-> FALSE, ret |-> FromInt(0)]
       \/ \E v \in PathInputs :
            fn_call = [fn |-> "validate_model_path", arg |-> v, done |-> FALSE, ret |-> FALSE]
       \/ \E l \in Listings :
            fn_call = [fn |-> "scan_models", arg |-> l, done |-> FALSE, ret |-> <<>>]
       \/ \E f \in DeleteEntryPoints : \E v \in DeletePathInputs :
            fn_call = [fn |-> f, arg |-> [model_path |-> v, file_patterns |-> <<>>],
                       done |-> FALSE, ret |-> DeleteResult(FALSE, Tree)]
       \/ \E v \in SizeInputs :
            fn_call = [fn |-> "calculate_downloaded_size", arg |-> v, done |-> FALSE,
                       ret |-> SizeResult(FALSE, 0)]
       \/ \E v \in DotIdInputs :
            fn_call = [fn |-> "download_destination", arg |-> v, done |-> FALSE,
                       ret |-> [accepted |-> FALSE, dir |-> <<>>]]
       \/ \E pair \in ShardPairs :
            fn_call = [fn |-> "group_model_files", arg |-> pair, done |-> FALSE,
                       ret |-> [groups |-> <<>>, ungrouped |-> <<>>]]
       \/ \E v \in RepoInfoInputs :
            fn_call = [fn |-> "get_repo_info_with_patterns", arg |-> v, done |-> FALSE,
                       ret |-> RepoInfo(0, 0)]
       \/ \E v \in CacheScanInputs :
            fn_call = [fn |-> "cache_scan", arg |-> v, done |-> FALSE,
                       ret |-> SizeResult(FALSE, 0)]
       \/ \E v \in DirEntriesUpTo(MaxMigrated) :
            fn_call = [fn |-> "migrate_model_directory", arg |-> v, done |-> FALSE,
                       ret |-> [entries |-> <<>>, converted |-> FALSE]]
       \/ \E r \in RaceInputs :
            fn_call = [fn |-> "scan_models_racing", arg |-> r, done |-> FALSE,
                       ret |-> ScanResult(FALSE, <<>>)]
       \/ \E f \in {"update_model_task", "update_model_func"} : \E v \in RepoIdInputs :
            fn_call = [fn |-> f, arg |-> v, done |-> FALSE,
                       ret |-> UpdateResult(FALSE, FALSE, FALSE)]
       \/ \E v \in DeletePathInputs : \E ps \in PatternLists :
            fn_call = [fn |-> "delete_specific_files",
                       arg |-> [model_path |-> v, file_patterns |-> ps],
                       done |-> FALSE, ret |-> DeleteResult(FALSE, Tree)]

CallValidateRepoId ==
    /\ variant = "functions"
    /\ fn_call.fn = "validate_repo_id" /\ ~fn_call.done
    /\ fn_call' = [fn_call EXCEPT !.done = TRUE, !.ret = validate_repo_id(fn_call.arg)]
    /\ UNCHANGED notFunctions

CallAppTick ==
    /\ variant = "functions"
    /\ fn_call.fn = "app_tick" /\ ~fn_call.done
    /\ fn_call' = [fn_call EXCEPT !.done = TRUE,
                       !.ret = AppByteProgress(fn_call.arg.downloaded_bytes,
                                               fn_call.arg.total_expected_bytes,
                                               fn_call.arg.file_count)]
    /\ UNCHANGED notFunctions

CallMonitorTick ==
    /\ variant = "functions"
    /\ fn_call.fn = "monitor_tick" /\ ~fn_call.done
    /\ fn_call' = [fn_call EXCEPT !.done = TRUE,
                       !.ret = MonitorProgress(fn_call.arg.downloaded_bytes,
                                               fn_call.arg.total_expected_bytes)]
    /\ UNCHANGED notFunctions

CallValidateModelPath ==
    /\ variant = "functions"
    /\ fn_call.fn = "validate_model_path" /\ ~fn_call.done
    /\ fn_call' = [fn_call EXCEPT !.done = TRUE, !.ret = validate_model_path(fn_call.arg)]
    /\ UNCHANGED notFunctions

CallScanModels ==
    /\ variant = "functions"
    /\ fn_call.fn = "scan_models" /\ ~fn_call.done
    /\ fn_call' = [fn_call EXCEPT !.done = TRUE, !.ret = scan_models(fn_call.arg, ParentDir)]
    /\ UNCHANGED notFunctions

CallDeleteModel ==
    /\ variant = "functions"
    /\ fn_call.fn = "delete_model" /\ ~fn_call.done
    /\ fn_call' = [fn_call EXCEPT !.done = TRUE,
                       !.ret = delete_model(Tree, fn_call.arg.model_path)]
    /\ UNCHANGED notFunctions

CallPerformDelete ==
    /\ variant = "functions"
    /\ fn_call.fn = "perform_delete" /\ ~fn_call.done
    /\ fn_call' = [fn_call EXCEPT !.done = TRUE,
                       !.ret = perform_delete(Tree, fn_call.arg.model_path)]
    /\ UNCHANGED notFunctions

CallDeleteModelTask ==
    /\ variant = "functions"
    /\ fn_call.fn = "delete_model_task" /\ ~fn_call.done
    /\ fn_call' = [fn_call EXCEPT !.done = TRUE,
                       !.ret = delete_model_task(Tree, fn_call.arg.model_path)]
    /\ UNCHANGED notFunctions

CallDeleteSpecificFiles ==
    /\ variant = "functions"
    /\ fn_call.fn = "delete_specific_files" /\ ~fn_call.done
    /\ fn_call' = [fn_call EXCEPT !.done = TRUE,
                       !.ret = delete_specific_files(Tree, fn_call.arg.model_path,
                                                     fn_call.arg.file_patterns)]
    /\ UNCHANGED notFunctions

CallDeleteModelFunc ==
    /\ variant = "functions"
    /\ fn_call.fn = "delete_model_func" /\ ~fn_call.done
    /\ fn_call' = [fn_call EXCEPT !.done = TRUE,
                       !.ret = delete_model_func(Tree, fn_call.arg.model_path)]
    /\ UNCHANGED notFunctions

CallUpdateModelTask ==
    /\ variant = "functions"
    /\ fn_call.fn = "update_model_task" /\ ~fn_call.done
    /\ fn_call' = [fn_call EXCEPT !.done = TRUE, !.ret = update_model_task(fn_call.arg)]
    /\ UNCHANGED notFunctions

CallUpdateModelFunc ==
    /\ variant = "functions"
    /\ fn_call.fn = "update_model_func" /\ ~fn_call.done
    /\ fn_call' = [fn_call EXCEPT !.done = TRUE, !.ret = update_model_func(fn_call.arg)]
    /\ UNCHANGED notFunctions

CallScanModelsRacing ==
    /\ variant = "functions"
    /\ fn_call.fn = "scan_models_racing" /\ ~fn_call.done
    /\ fn_call' = [fn_call EXCEPT !.done = TRUE,
                       !.ret = scan_models_racing(fn_call.arg.files, ParentDir,
                                                  fn_call.arg.name, fn_call.arg.moment)]
    /\ UNCHANGED notFunctions

CallCalculateDownloadedSize ==
    /\ variant = "functions"
    /\ fn_call.fn = "calculate_downloaded_size" /\ ~fn_call.done
    /\ fn_call' = [fn_call EXCEPT !.done = TRUE,
                       !.ret = calculate_downloaded_size_walk(fn_call.arg.local_files,
                                                              fn_call.arg.cache,
                                                              fn_call.arg.repo_id)]
    /\ UNCHANGED notFunctions

CallDownloadDestination ==
    /\ variant = "functions"
    /\ fn_call.fn = "download_destination" /\ ~fn_call.done
    /\ fn_call' = [fn_call EXCEPT !.done = TRUE, !.ret = download_destination(fn_call.arg)]
    /\ UNCHANGED notFunctions

CallGroupModelFiles ==
    /\ variant = "functions"
    /\ fn_call.fn = "group_model_files" /\ ~fn_call.done
    /\ fn_call' = [fn_call EXCEPT
           !.done = TRUE,
           !.ret = group_model_files(
                       <<[name |-> ShardName(fn_call.arg[1]), size_bytes |-> 1],
                         [name |-> ShardName(fn_call.arg[2]), size_bytes |-> 1]>>,
                       ParentDir, <<>>, <<>>)]
    /\ UNCHANGED notFunctions

CallGetRepoInfo ==
    /\ variant = "functions"
    /\ fn_call.fn = "get_repo_info_with_patterns" /\ ~fn_call.done
    /\ fn_call' = [fn_call EXCEPT
           !.done = TRUE,
           !.ret = get_repo_info_with_patterns(fn_call.arg.siblings,
                                               AllowPatterns(fn_call.arg.quant_pattern),
                                               fn_call.arg.raises)]
    /\ UNCHANGED notFunctions

CallMigrateModelDirectory ==
    /\ variant = "functions"
    /\ fn_call.fn = "migrate_model_directory" /\ ~fn_call.done
    /\ fn_call' = [fn_call EXCEPT !.done = TRUE, !.ret = migrate_model_directory(fn_call.arg)]
    /\ UNCHANGED notFunctions

\* calculate_downloaded_size for repo_id, with an empty local directory and a
\* cache that holds the directory of owner with one blob of one byte
CallCacheScan ==
    /\ variant = "functions"
    /\ fn_call.fn = "cache_scan" /\ ~fn_call.done
    /\ fn_call' = [fn_call EXCEPT !.done = TRUE,
                      !.ret = calculate_downloaded_size_walk(
                                  <<>>,
                                  [name |-> cache_repo_dir(fn_call.arg.owner),
                                   files |-> <<[size_bytes |-> 1, readable |-> TRUE]>>],
                                  fn_call.arg.repo_id)]
    /\ UNCHANGED notFunctions

NextFunctions ==
    \/ CallScanModels
    \/ CallCacheScan
    \/ CallMigrateModelDirectory
    \/ CallGetRepoInfo
    \/ CallGroupModelFiles
    \/ CallDownloadDestination
    \/ CallCalculateDownloadedSize
    \/ CallScanModelsRacing
    \/ CallUpdateModelTask
    \/ CallUpdateModelFunc
    \/ CallDeleteModel
    \/ CallPerformDelete
    \/ CallDeleteModelTask
    \/ CallDeleteSpecificFiles
    \/ CallDeleteModelFunc
    \/ CallValidateRepoId
    \/ CallAppTick
    \/ CallMonitorTick
    \/ CallValidateModelPath

SpecFunctions == InitFunctions /\ [][NextFunctions]_vars

---------------------------------------------------------------------------
\* Properties.

ActiveTasks == {t \in TaskIds : tasks[t].pc # "idle"}

\* at most one transfer has been submitted and it has the system to itself
SingleTransfer ==
    CASE variant \in AppVariants -> Cardinality(ActiveTasks) <= 1
      [] variant = "multiprocess" -> next_task_id <= 2
      [] OTHER -> TRUE

\* C1: in app.py at most one snapshot_download call is in flight at any time,
\* whatever the interleaving of POST /download and POST /api/models/update.
C1_AtMostOneFetchInFlight == Cardinality(FetchesInFlight) <= 1

\* a step that accepts a transfer: a task is spawned or enqueued
Accepted ==
    \/ tasks' # tasks /\ \E t \in TaskIds : tasks[t].pc = "idle" /\ tasks'[t].pc = "start"
    \/ task_queue' # task_queue /\ Len(task_queue') > Len(task_queue)
    \/ pending_tasks' # pending_tasks /\ pending_tasks \subseteq pending_tasks'
    \/ next_task_id' # next_task_id

\* what a download request gets for an answer
StartDownloadReply(repo_id) ==
    IF variant \in AppVariants THEN app_start_download_reply(repo_id)
    ELSE mp_start_download_reply(repo_id)

\* C2: a download request received while status is "downloading" is answered
\* with an error, starts or enqueues no task, and leaves the status record as
\* it was (start_download of app.py and of app_multiprocess.py).
C2_BusyDownloadRejected ==
    /\ []((download_status.status = "downloading" /\ variant \in {"app", "multiprocess"})
            => \A r \in RequestIds : StartDownloadReply(r).code = 400)
    /\ [][\A r \in RequestIds :
            (/\ download_status.status = "downloading"
             /\ app_start_download(r) \/ mp_start_download(r))
            => ~Accepted /\ download_status' = download_status]_vars

\* a well-formed request arrives while a transfer is downloading and its
\* fetch is in flight, and gets the "already in progress" answer
C2_Witness ==
    /\ variant = "app"
    /\ download_status.status = "downloading"
    /\ FetchesInFlight # {}
    /\ app_start_download_reply(RepoAB) = Reply(400, "Download already in progress")

\* C3: in every variant, no reader of the status record sees progress 100
\* while status is anything other than "completed".
C3_HundredOnlyWhenCompleted ==
    download_status.progress = FromInt(100) => download_status.status = "completed"

\* C4: within one transfer, from one status write to the next while status is
\* "downloading", progress never decreases.
C4_ProgressNeverDecreases ==
    [][(/\ SingleTransfer
        /\ download_status.status = "downloading"
        /\ download_status'.status = "downloading")
       => RatLeq(download_status.progress, download_status'.progress)]_vars

ErrorMessages == {"HuggingFace error: <e>", "Error: <e>", "Download failed: <stderr>"}

\* the status update the download manager put last
LastPut(queue) == queue[Len(queue)]

FieldOf(update, key) ==
    LET i == CHOOSE k \in 1..Len(update) : update[k][1] = key IN update[i][2]

\* C5: when the bulk fetch raises, the transfer ends with status "error" and a
\* message taken from the failure, never with "completed" (app.py,
\* download.py, download_manager.py).
C5_RaisedFetchEndsInError ==
    [][/\ \A t \in TaskIds :
            (variant \in AppVariants /\ tasks[t].pc = "join" /\ tasks[t].fetch = "raised"
                /\ tasks'[t].pc = "idle")
            => /\ download_status'.status = "error"
               /\ download_status'.current_file \in ErrorMessages
       /\ (variant = "download" /\ dl.fetch = "raised" /\ dl.pc # "idle" /\ dl'.pc = "idle")
            => /\ download_status'.status = "error"
               /\ download_status'.current_file \in ErrorMessages
       /\ (variant = "multiprocess" /\ dm.fetch = "running" /\ dm'.fetch = "raised")
            => /\ FieldOf(LastPut(status_queue'), "status") = "error"
               /\ FieldOf(LastPut(status_queue'), "current_file") \in ErrorMessages]_vars

\* C6: in the multi-process variant, once a failed transfer has made the
\* status "error" it stays "error" as long as no new transfer is submitted
\* (stated for the first transfer: one submission, none after it).
C6_ErrorStaysUntilResubmission ==
    [][(/\ variant = "multiprocess"
        /\ next_task_id = 2 /\ next_task_id' = 2
        /\ download_status.status = "error")
       => download_status'.status = "error"]_vars

\* C7: once the bulk fetch has returned and "completed" has been written, no
\* monitoring tick writes "downloading" into the status record again (stated
\* for a transfer that has the system to itself).
C7_NoTickAfterCompleted ==
    [][(/\ SingleTransfer /\ SingleTransfer'
        /\ download_status.status = "completed")
       => download_status'.status # "downloading"]_vars

\* a finished call of one of the two byte-based estimators, on its byte branch
ByteTickDone ==
    /\ fn_call.done
    /\ fn_call.fn \in {"app_tick", "monitor_tick"}
    /\ fn_call.arg.total_expected_bytes > 0
    /\ fn_call.fn = "app_tick" => fn_call.arg.downloaded_bytes > 0

\* percent is the smaller of cap and 100 * bytes / total, by cross-multiplication
IsCappedRatio(percent, cap, downloaded_bytes, total_expected_bytes) ==
    IF downloaded_bytes * 100 >= cap * total_expected_bytes
    THEN percent.n = cap /\ percent.d = 1
    ELSE percent.n * total_expected_bytes = percent.d * downloaded_bytes * 100

\* C8 as the code has it: with a known expected total (and, in app.py, bytes
\* on disk), a tick computes min(95, 100 * bytes / total): of 1,000,000
\* expected bytes, 600,000 on disk give 60 and 1,000,000 or more give 95.
C8_ByteProgressCap95 ==
    ByteTickDone =>
        /\ IsCappedRatio(fn_call.ret, 95, fn_call.arg.downloaded_bytes,
                         fn_call.arg.total_expected_bytes)
        /\ fn_call.arg.total_expected_bytes = 1000000 =>
              /\ fn_call.arg.downloaded_bytes = 600000 => fn_call.ret = FromInt(60)
              /\ fn_call.arg.downloaded_bytes >= 1000000 => fn_call.ret = FromInt(95)

\* the app.py tick has run with all 1,000,000 expected bytes on disk
C8_Witness ==
    /\ fn_call.done
    /\ fn_call.fn = "app_tick"
    /\ fn_call.arg.total_expected_bytes = 1000000
    /\ fn_call.arg.downloaded_bytes = 1000000
    /\ fn_call.ret = FromInt(95)

\* C8 as written: with a known expected total a tick computes
\* min(99, 100 * bytes / total): of 1,000,000 expected bytes, 600,000 on disk
\* give 60 and 1,000,000 or more give 99.
C8_ByteProgressCap99 ==
    (fn_call.done /\ fn_call.fn \in {"app_tick", "monitor_tick"}
        /\ fn_call.arg.total_expected_bytes > 0) =>
        /\ IsCappedRatio(fn_call.ret, 99, fn_call.arg.downloaded_bytes,
                         fn_call.arg.total_expected_bytes)
        /\ fn_call.arg.total_expected_bytes = 1000000 =>
              /\ fn_call.arg.downloaded_bytes = 600000 => fn_call.ret = FromInt(60)
              /\ fn_call.arg.downloaded_bytes >= 1000000 => fn_call.ret = FromInt(99)

\* C9: when the registry query fails the transfer goes on with a zero total:
\* the fetch is started, every tick reports a heuristic percent that is no
\* smaller than the one before and below 100, and a fetch that returns ends in
\* status "completed".
C9_ProbeFailureDegrades ==
    [][\A t \in TaskIds :
         /\ (tasks[t].pc = "probe" /\ tasks'[t].pc # "probe"
                /\ tasks'[t].total_expected_bytes = 0)
            => tasks'[t].pc = "loop" /\ tasks'[t].fetch = "running"
         /\ (tasks[t].pc = "scan" /\ tasks'[t].pc = "write"
                /\ tasks[t].total_expected_bytes = 0)
            => /\ RatLeq(tasks[t].progress, tasks'[t].progress)
               /\ RatLess(tasks'[t].progress, FromInt(100))
               /\ RatLeq(FromInt(5), tasks'[t].progress)
         /\ (tasks[t].pc = "write" /\ tasks'[t].pc = "loop"
                /\ tasks[t].total_expected_bytes = 0)
            => /\ download_status'.progress = tasks[t].progress
               /\ download_status'.status = "downloading"
         /\ (tasks[t].pc = "join" /\ tasks'[t].pc = "idle"
                /\ tasks[t].total_expected_bytes = 0 /\ tasks[t].fetch = "returned")
            => download_status'.status = "completed"]_vars

\* a transfer whose size probe failed has ticked twice, its second percent
\* above the first, and its fetch has returned
C9_Witness ==
    \E t \in TaskIds :
        /\ tasks[t].pc = "join"
        /\ tasks[t].total_expected_bytes = 0
        /\ tasks[t].ticks = 2
        /\ RatLess(FromInt(FileCountStart + 1), tasks[t].progress)
        /\ tasks[t].fetch = "returned"

Whitespace == {" ", "\t"}

\* namespace/name: exactly one '/', both parts non-empty, no whitespace
WellFormedRepoId(v) ==
    /\ v.kind = "str"
    /\ Cardinality({i \in 1..Len(v.chars) : v.chars[i] = "/"}) = 1
    /\ Len(v.chars) >= 3
    /\ v.chars[1] # "/"
    /\ v.chars[Len(v.chars)] # "/"
    /\ \A i \in 1..Len(v.chars) : v.chars[i] \notin Whitespace

\* C10: validate_repo_id accepts its input exactly when it is a str of the
\* form namespace/name with one '/', non-empty parts and no whitespace
\* character anywhere.
C10_AcceptsExactlyWellFormed ==
    (fn_call.done /\ fn_call.fn = "validate_repo_id")
        => (fn_call.ret <=> WellFormedRepoId(fn_call.arg))

\* the normalized form of the path lies strictly below /models
NormalizedStrictDescendant(v) ==
    /\ v.kind = "str"
    /\ LET n == normpath(v.chars)
       IN  /\ Len(n) > Len(ModelsPrefix)
           /\ \A i \in 1..Len(ModelsPrefix) : n[i] = ModelsPrefix[i]

\* the path as given begins with "/models/"
GivenUnderModels(v) ==
    /\ v.kind = "str"
    /\ Len(v.chars) >= 3
    /\ v.chars[1] = "/" /\ v.chars[2] = "models" /\ v.chars[3] = "/"

ValidateModelPathDone == fn_call.done /\ fn_call.fn = "validate_model_path"

RootPath == <<"/", "models">>

RootSlashPath == <<"/", "models", "/">>

OtherPath == <<"/", "x", "/", "x">>

TraversalPath == <<"/", "models", "/", ".", ".", "/", "x">>

\* C11 as the code has it: validate_model_path accepts a path exactly when the
\* path as given starts with "/models/" and its normalized form is a strict
\* descendant of /models; "/models", "/models/", "/other/x", "/models/../etc"
\* and every path that normalizes to /models or to a place outside it are
\* rejected.
C11_AcceptsPrefixedStrictDescendants ==
    ValidateModelPathDone =>
        /\ fn_call.ret <=> (NormalizedStrictDescendant(fn_call.arg) /\ GivenUnderModels(fn_call.arg))
        /\ ~NormalizedStrictDescendant(fn_call.arg) => ~fn_call.ret
        /\ (fn_call.arg.kind = "str" /\ fn_call.arg.chars \in
                {RootPath, RootSlashPath, OtherPath, TraversalPath}) => ~fn_call.ret

\* "/models/./x", which normalizes to /models/x, has been accepted
C11_Witness ==
    /\ ValidateModelPathDone
    /\ fn_call.arg = Str(<<"/", "models", "/", ".", "/", "x">>)
    /\ fn_call.ret

\* C11 as written: validate_model_path accepts a path exactly when its
\* normalized form is a strict descendant of /models.
C11_AcceptsExactlyStrictDescendants ==
    ValidateModelPathDone => (fn_call.ret <=> NormalizedStrictDescendant(fn_call.arg))

ScanModelsDone == fn_call.done /\ fn_call.fn = "scan_models"

\* the size of the file called name in the directory listed
SizeOf(listing, name) ==
    LET i == CHOOSE k \in 1..Len(listing) : listing[k].name = name
    IN  listing[i].size_bytes

RECURSIVE TotalSize(_, _)
TotalSize(listing, names) ==
    IF names = {} THEN 0
    ELSE LET n == CHOOSE m \in names : TRUE
         IN  SizeOf(listing, n) + TotalSize(listing, names \ {n})

NamesIn(files) == {files[i].name : i \in 1..Len(files)}

ShardGroupName == <<"model", "-", "*", "-", "of", "-", "2", ".safetensors">>

\* C12: scan_models puts model-00001-of-00002.safetensors and
\* model-00002-of-00002.safetensors of one directory in one group, named after
\* the base name and the shard count, whose size_bytes is the sum of the two
\* sizes; and every group's size_bytes is the sum of its members' sizes.
C12_ShardsGroupedAndSummed ==
    ScanModelsDone =>
        \A m \in 1..Len(fn_call.ret) :
            LET groups == fn_call.ret[m].groups
            IN  /\ \A g \in 1..Len(groups) :
                      groups[g].size_bytes = TotalSize(fn_call.arg, NamesIn(groups[g].files))
                /\ {Shard1of2, Shard2of2} \subseteq NamesIn(fn_call.arg) =>
                      /\ Cardinality({g \in 1..Len(groups) :
                             NamesIn(groups[g].files) \cap {Shard1of2, Shard2of2} # {}}) = 1
                      /\ \E g \in 1..Len(groups) :
                             /\ groups[g].name = ShardGroupName
                             /\ NamesIn(groups[g].files) = {Shard1of2, Shard2of2}
                             /\ groups[g].size_bytes =
                                    SizeOf(fn_call.arg, Shard1of2) + SizeOf(fn_call.arg, Shard2of2)

\* a directory holding exactly the two shards, of sizes 1 and 2, has been
\* scanned into one model with one group of size 3
C12_Witness ==
    /\ ScanModelsDone
    /\ fn_call.arg = <<[name |-> Shard1of2, size_bytes |-> 1],
                       [name |-> Shard2of2, size_bytes |-> 2]>>
    /\ Len(fn_call.ret) = 1
    /\ Len(fn_call.ret[1].groups) = 1
    /\ fn_call.ret[1].groups[1].size_bytes = 3

\* C13: for a directory holding weights.gguf alone, scan_models lists the file
\* in individual_files and makes no group for it.
C13_LoneGgufIsIndividual ==
    (ScanModelsDone /\ NamesIn(fn_call.arg) = {WeightsGguf}) =>
        /\ Len(fn_call.ret) = 1
        /\ NamesIn(fn_call.ret[1].individual_files) = {WeightsGguf}
        /\ fn_call.ret[1].groups = <<>>

\* C14: a status read never sees a partially applied update: after any step
\* that changes the status record, no field of the update being applied is
\* still to be written with a different value (AppState.update_status against
\* get_status; update_download_status against /status).
C14_NoPartialUpdateVisible ==
    [][(variant \in {"app", "multiprocess"} /\ download_status' # download_status)
       => \A i \in 1..Len(sp'.fields) :
             download_status'[sp'.fields[i][1]] = sp'.fields[i][2]]_vars

\* C15: after cancel_download has set status "cancelled", no later status
\* write of the cancelled transfer (the start_download_task call still under
\* way) moves the status away from "cancelled".
C15_CancelledStaysCancelled ==
    [][(variant = "download" /\ download_status.status = "cancelled" /\ dl.pc # "idle")
       => download_status'.status = "cancelled"]_vars

FetchEnded == {"returned", "raised"}

C17_CompletedWithFinalScan ==
    [][/\ \A t \in TaskIds :
            (variant \in AppVariants /\ tasks[t].pc = "join" /\ tasks[t].fetch = "returned"
                /\ tasks'[t].pc = "idle")
            => /\ download_status'.status = "completed"
               /\ download_status'.progress = FromInt(100)
               /\ download_status'.downloaded_bytes = disk[tasks[t].repo_id].bytes
       /\ (variant = "multiprocess" /\ dm.fetch = "running" /\ dm'.fetch = "returned")
            => /\ FieldOf(LastPut(status_queue'), "status") = "completed"
               /\ FieldOf(LastPut(status_queue'), "progress") = FromInt(100)
               /\ FieldOf(LastPut(status_queue'), "downloaded_bytes")
                    = disk[dm.task.repo_id].bytes]_vars

\* a transfer of app.py has ended "completed" with the bytes it left on disk
C17_Witness ==
    /\ variant = "app"
    /\ download_status.status = "completed"
    /\ download_status.progress = FromInt(100)
    /\ download_status.downloaded_bytes > 0
    /\ \A t \in TaskIds : tasks[t].pc = "idle"

\* C18: the directory of a repository is never removed while a bulk fetch
\* into that directory is running.
C18_NoDeleteDuringTransfer ==
    [][\A r \in ValidRepos :
          (variant = "app_solo" /\ disk[r].exists /\ ~disk'[r].exists)
          => ~\E t \in TaskIds : tasks[t].repo_id = r /\ tasks[t].fetch = "running"]_vars

\* a finished call of one of the delete entry points
DeleteDone ==
    /\ fn_call.done
    /\ fn_call.fn \in DeleteEntryPoints \cup {"delete_specific_files"}

\* the path names the storage root, or nothing that lies strictly below it
RootOrOutside(v) ==
    \/ v.kind # "str"
    \/ ~StartsWith(abspath(v.chars), ModelsPrefix)

\* C19: every delete entry point, given the storage root or a path that is not
\* a strict descendant of /models, returns a failure and leaves the storage as
\* it was.
C19_DeleteRefusesRootAndOutside ==
    (DeleteDone /\ RootOrOutside(fn_call.arg.model_path))
    => /\ ~fn_call.ret.success
       /\ fn_call.ret.tree = Tree

\* C20: an operation that starts a transfer does no work for an identifier
\* that validate_repo_id rejects: no directory is created and the bulk fetch
\* is not invoked (stated for update_model_task and update_model_func).
C20_MalformedIdStartsNoWork ==
    (/\ fn_call.done
     /\ fn_call.fn \in {"update_model_task", "update_model_func"}
     /\ ~validate_repo_id(fn_call.arg))
    => /\ ~fn_call.ret.made_dir
       /\ ~fn_call.ret.fetch_invoked

\* C21: for one accepted transfer of the multi-process variant the status is
\* "starting" before it is "downloading": once the record shows "downloading"
\* it does not go back to "starting" (stated for the first transfer: one
\* submission, none after it).
C21_StartingNeverFollowsDownloading ==
    [][(/\ variant = "multiprocess"
        /\ next_task_id = 2 /\ next_task_id' = 2
        /\ download_status.status = "downloading")
       => download_status'.status # "starting"]_vars

\* C22: an exception raised inside a monitoring tick is contained: raising it
\* and catching it leave the status record, the queues and the fetch as they
\* are, and the except branch hands control back to the loop, with the monitor
\* of the multi-process variant still in place (app.py, monitor_service.py).
C22_TickExceptionContained ==
    [][/\ \A t \in TaskIds :
            /\ (tasks[t].pc = "scan" /\ tasks'[t].pc = "caught")
               => /\ download_status' = download_status
                  /\ tasks'[t].fetch = tasks[t].fetch
            /\ (tasks[t].pc = "caught" /\ tasks'[t].pc # "caught")
               => /\ tasks'[t].pc = "loop"
                  /\ download_status' = download_status
                  /\ tasks'[t].fetch = tasks[t].fetch
       /\ (~mon.caught /\ mon'.caught)
            => /\ mon'.active
               /\ download_status' = download_status /\ status_queue' = status_queue
               /\ dm' = dm
       /\ (mon.caught /\ ~mon'.caught)
            => /\ mon' = [mon EXCEPT !.caught = FALSE] /\ mon'.active
               /\ download_status' = download_status /\ status_queue' = status_queue
               /\ dm' = dm]_vars

\* the first tick of a transfer of app.py has raised and been caught: the loop
\* is back at its test, the fetch still runs, and the status record still
\* shows the progress 5 written before the loop
C22_Witness ==
    \E t \in TaskIds :
        /\ variant = "app_solo"
        /\ tasks[t].pc = "loop"
        /\ tasks[t].ticks = 1
        /\ tasks[t].fetch = "running"
        /\ download_status.status = "downloading"
        /\ download_status.progress = FromInt(5)

\* C23: scan_models returns a listing, and does not fail, when a file of the
\* directory vanishes at any point between the listing and the reading of its
\* size.
C23_ScanToleratesVanishingFile ==
    (fn_call.done /\ fn_call.fn = "scan_models_racing") => ~fn_call.ret.raised

\* the sizes of the readable files of a directory, added up
RECURSIVE ReadableTotal(_, _)
ReadableTotal(files, upto) ==
    IF upto = 0 THEN 0
    ELSE (IF files[upto].readable THEN files[upto].size_bytes ELSE 0)
         + ReadableTotal(files, upto - 1)

\* the name of the cache directory of "a/b" and of "x/b", written out
SanitizedName(repo_id) ==
    IF repo_id = <<"a", "/", "b">> THEN <<"models", "-", "-", "a", "-", "-", "b">>
    ELSE <<"models", "-", "-", "x", "-", "-", "b">>

\* C24: calculate_downloaded_size returns, without failing, the sum of the
\* sizes of the readable files below the destination directory and below
\* <cache>/models--<repo_id with '/' replaced by '--'>; a file whose size
\* cannot be read adds 0.
C24_SumOfReadableFiles ==
    (fn_call.done /\ fn_call.fn = "calculate_downloaded_size")
    => /\ ~fn_call.ret.raised
       /\ fn_call.ret.total =
            ReadableTotal(fn_call.arg.local_files, Len(fn_call.arg.local_files))
            + (IF fn_call.arg.cache.name = SanitizedName(fn_call.arg.repo_id)
               THEN ReadableTotal(fn_call.arg.cache.files, Len(fn_call.arg.cache.files))
               ELSE 0)

\* a scan has met an unreadable file below the destination directory and has
\* counted a readable one in the repository's cache directory
C24_Witness ==
    /\ fn_call.done /\ fn_call.fn = "calculate_downloaded_size"
    /\ \E i \in 1..Len(fn_call.arg.local_files) : ~fn_call.arg.local_files[i].readable
    /\ \E i \in 1..Len(fn_call.arg.local_files) : fn_call.arg.local_files[i].readable
    /\ fn_call.arg.cache.name = SanitizedName(fn_call.arg.repo_id)
    /\ \E i \in 1..Len(fn_call.arg.cache.files) : fn_call.arg.cache.files[i].readable
    /\ fn_call.ret.total = 2 * MaxFileSize

\* C25: whenever the status record shows progress 0 (after the reset that
\* begins a transfer, after an error) its eta is null or absent: no eta of an
\* earlier stretch of progress is carried over.
C25_NoEtaAtProgressZero ==
    download_status.progress = FromInt(0) => download_status.eta \in {"absent", "None"}

TerminalStatus == {"completed", "error"}

\* C26: after a download request has been accepted by app.py or download.py,
\* and given that the bulk fetch returns or raises, the status eventually is
\* "completed" or "error".
C26_TransferEndsInTerminalStatus ==
    /\ \A t \in TaskIds :
          (tasks[t].pc # "idle") ~> (download_status.status \in TerminalStatus)
    /\ (dl.pc # "idle") ~> (download_status.status \in TerminalStatus)

\* a transfer of download.py has run to its end and left "completed"
C26_Witness ==
    /\ variant = "download"
    /\ dl.pc = "idle"
    /\ download_status.status = "completed"
    /\ download_status.repo_id = RepoAB

\* C27: the step that takes the status to "error" deletes nothing: every
\* directory of the destination and the cache holds after it what it held
\* before it.
C27_ErrorLeavesFilesInPlace ==
    [][(download_status.status # "error" /\ download_status'.status = "error")
          => disk' = disk]_vars

\* a transfer of app.py has failed after part of the files were written
C27_Witness ==
    /\ variant = "app"
    /\ download_status.status = "error"
    /\ \A t \in TaskIds : tasks[t].pc = "idle"
    /\ disk[download_status.repo_id].exists
    /\ disk[download_status.repo_id].bytes > 0

\* C28: for every identifier validate_repo_id accepts, the directory
\* /models/<identifier> of the transfer normalizes to a path strictly below
\* /models: never /models itself, never a path outside it.
C28_DestinationStaysBelowRoot ==
    (fn_call.fn = "download_destination" /\ fn_call.done /\ fn_call.ret.accepted)
        => /\ StartsWith(normpath(fn_call.ret.dir), ModelsPrefix)
           /\ normpath(fn_call.ret.dir) # ModelsDir

\* a transfer has been accepted and its end has not yet been taken note of
TransferPending ==
    CASE variant \in AppVariants -> ActiveTasks # {}
      [] variant = "multiprocess" -> pending_tasks # {}
      [] OTHER -> TRUE

\* C29: a download request is answered "Download already in progress" only
\* while a transfer is under way: once every accepted transfer has ended, the
\* status is no longer "downloading" and a download request is accepted
\* (app_multiprocess.py and app.py).
C29_BusyOnlyWhileTransferring ==
    \A r \in RequestIds :
        StartDownloadReply(r) = Reply(400, "Download already in progress")
            => TransferPending

Range(q) == {q[i] : i \in 1..Len(q)}

\* the tasks a step takes off the task queue
Taken == Range(task_queue) \ Range(task_queue')

\* C30: the download manager of the multi-process variant runs its tasks one
\* at a time and in the order they were enqueued: a task is taken only when
\* the manager is idle, it is the oldest of the queue, and while a bulk fetch
\* is in flight no other fetch begins and no directory is deleted, whatever
\* downloads, updates and deletes the web server has accepted.
C30_ManagerRunsTasksInOrder ==
    [][/\ \A i, j \in 1..Len(task_queue) :
              i < j => task_queue[i].task_id < task_queue[j].task_id
       /\ Taken # {} =>
              /\ dm.pc = "idle" /\ dm.fetch # "running"
              /\ Cardinality(Taken) = 1
              /\ \A x \in Taken : \A y \in Range(task_queue') : x.task_id < y.task_id
       /\ dm.fetch = "running" =>
              /\ \A r \in DOMAIN disk : disk[r].exists => disk'[r].exists
              /\ dm'.fetch = "running" => dm'.task = dm.task]_vars

\* a download and the delete enqueued behind it have both been carried out, in
\* that order
C30_Witness ==
    /\ variant = "manager"
    /\ Len(response_queue) = 2
    /\ response_queue[1] = [task_id |-> 1, success |-> TRUE]
    /\ response_queue[2] = [task_id |-> 2, success |-> TRUE]
    /\ \E task \in pending_tasks : task.task_id = 1 /\ task.type = "download"
    /\ \E task \in pending_tasks : task.task_id = 2 /\ task.type = "delete"
    /\ ~disk[RepoAB].exists

\* the step is a monitoring pass that sends a progress update
MonitorEmits ==
    /\ variant = "multiprocess"
    /\ Len(status_queue') = Len(status_queue) + 1
    /\ mon'.active
    /\ LastPut(status_queue') = MonitorUpdate(mon')
    /\ dm' = dm

\* C31: in the multi-process variant a progress update of the monitor is about
\* the transfer the download manager is working on: when the monitor sends
\* one, the repository it scans is the repository of the task the manager is
\* running, or at least of a task still waiting in its queue, and while a bulk
\* fetch is in flight the monitor is set, or its start request is on its way.
C31_MonitorFollowsRunningTransfer ==
    [][/\ MonitorEmits =>
              \/ dm.pc # "idle" /\ dm.task.repo_id = mon'.repo_id
              \/ \E i \in 1..Len(task_queue) : task_queue[i].repo_id = mon'.repo_id
       /\ dm.fetch = "running" =>
              \/ mon.active
              \/ \E i \in 1..Len(monitor_requests_queue) :
                     monitor_requests_queue[i].type = "start_monitor"]_vars

\* C32: in the multi-process variant, once the registry's positive expected
\* total of the transfer stands in the status record, the percent of a
\* monitor's progress update is the capped ratio of the bytes on disk to that
\* total, not the heuristic for an unknown size.
C32_MonitorUsesExpectedTotal ==
    [][(MonitorEmits /\ download_status.total_bytes > 0
           /\ dm.fetch = "running" /\ dm.task.repo_id = mon'.repo_id)
          => FieldOf(LastPut(status_queue'), "progress") =
                 RatMin(FromInt(ProgressCap),
                        Rat(FieldOf(LastPut(status_queue'), "downloaded_bytes") * 100,
                            download_status.total_bytes))]_vars

\* the identifiers of the tasks enqueued so far
EnqueuedIds == 1..(next_task_id - 1)

PendingIds == {task.task_id : task \in pending_tasks}

QueuedIds == {task_queue[i].task_id : i \in 1..Len(task_queue)}

RunningIds == IF dm.pc = "idle" THEN {} ELSE {dm.task.task_id}

RespondedIds == {response_queue[i].task_id : i \in 1..Len(response_queue)}

FirstFieldApplied(st, update) == [st EXCEPT ![update[1][1]] = update[1][2]]

\* C34: in the multi-process variant the status record changes only in steps of
\* the status update processor: a step that changes it is no step of a web
\* handler, of the manager or of the monitor, and it writes the next field of
\* the update at the head of status_queue, or of the update being applied, or
\* the ETA that ends an update; updates leave status_queue from its head, one
\* at a time.
C34_OnlyStatusProcessorWrites ==
    [][/\ download_status' # download_status =>
              /\ variant = "multiprocess"
              /\ UNCHANGED <<task_queue, response_queue, monitor_requests_queue,
                             pending_tasks, next_task_id, dm, mon, disk>>
              /\ \/ /\ sp.pc = "status" /\ status_queue # <<>>
                    /\ status_queue' = Tail(status_queue)
                    /\ download_status' = FirstFieldApplied(download_status, Head(status_queue))
                 \/ /\ sp.pc = "apply" /\ sp.fields # <<>>
                    /\ status_queue' = status_queue
                    /\ download_status' = FirstFieldApplied(download_status, sp.fields)
                 \/ /\ sp.pc = "apply" /\ sp.fields = <<>>
                    /\ status_queue' = status_queue
                    /\ \A k \in DOMAIN download_status \ {"eta"} :
                           download_status'[k] = download_status[k]
       /\ (variant = "multiprocess" /\ Len(status_queue') < Len(status_queue)) =>
              /\ status_queue' = Tail(status_queue)
              /\ sp.pc = "status"
              /\ sp'.fields = Tail(Head(status_queue))]_vars

\* updates of the manager and of the monitor have both been applied
C34_Witness ==
    /\ variant = "multiprocess"
    /\ download_status.status = "downloading"
    /\ download_status.total_bytes > 0
    /\ download_status.monitor_time = "set"
    /\ dm.fetch = "running"

\* the grouping holds a group with both names in it
InSameGroup(grouping, name1, name2) ==
    \E i \in 1..Len(grouping.groups) :
        {name1, name2} \subseteq
            {grouping.groups[i].files[k].name : k \in 1..Len(grouping.groups[i].files)}

\* C35: group_model_files puts two files <base>-<i>-of-<n><ext> of a directory
\* in the same group exactly when they have the same base name, the same total
\* n and the same extension, for each of the recognized model extensions.
C35_ShardsGroupedByBaseTotalExt ==
    (fn_call.fn = "group_model_files" /\ fn_call.done) =>
        (InSameGroup(fn_call.ret, ShardName(fn_call.arg[1]), ShardName(fn_call.arg[2]))
            <=> /\ fn_call.arg[1].base = fn_call.arg[2].base
                /\ fn_call.arg[1].total = fn_call.arg[2].total
                /\ fn_call.arg[1].ext = fn_call.arg[2].ext)

\* the registry's files the name pattern selects: all of them without a pattern
MatchingSiblings(siblings, quant_pattern) ==
    {i \in 1..Len(siblings) :
        quant_pattern = <<>> \/ IsSubstring(quant_pattern, siblings[i].rfilename)}

RECURSIVE SumOver(_, _)
SumOver(siblings, indices) ==
    IF indices = {} THEN 0
    ELSE LET i == CHOOSE k \in indices : TRUE
         IN  (IF siblings[i].has_size THEN siblings[i].size ELSE 0)
                 + SumOver(siblings, indices \ {i})

\* C36: when the registry answers, get_repo_info_with_patterns returns as total
\* the sum of the sizes of the files whose name contains the pattern (all
\* files without a pattern) and as count the number of those files; the total
\* is never negative.
C36_RepoInfoSumsMatchingFiles ==
    (fn_call.fn = "get_repo_info_with_patterns" /\ fn_call.done /\ ~fn_call.arg.raises) =>
        LET matching == MatchingSiblings(fn_call.arg.siblings, fn_call.arg.quant_pattern)
        IN  /\ fn_call.ret.total = SumOver(fn_call.arg.siblings, matching)
            /\ fn_call.ret.count = Cardinality(matching)
            /\ fn_call.ret.total >= 0

\* the entries a finished scan has returned
ScanEntries ==
    IF fn_call.fn = "scan_models" THEN fn_call.ret ELSE fn_call.ret.models

\* the files a finished scan was given
ScanListing ==
    IF fn_call.fn = "scan_models" THEN fn_call.arg ELSE fn_call.arg.files

\* the sum of the size_bytes of the groups
RECURSIVE GroupSizes(_)
GroupSizes(groups) ==
    IF groups = <<>> THEN 0 ELSE Head(groups).size_bytes + GroupSizes(Tail(groups))

\* how many times name is listed in the entry, in its groups and its
\* individual files
Occurrences(entry, name) ==
    Cardinality({<<g, k>> \in (1..Len(entry.groups)) \X (1..MaxDirFiles) :
                    k <= Len(entry.groups[g].files) /\ entry.groups[g].files[k].name = name})
    + Cardinality({k \in 1..Len(entry.individual_files) :
                    entry.individual_files[k].name = name})

\* C37: in every entry scan_models returns, each model file of the directory
\* is listed exactly once, in one group or among the individual files, and
\* total_size_bytes is the sum of the groups' size_bytes and of the individual
\* files' size_bytes, also when the scan runs while a file of the directory
\* goes away.  (One directory is scanned, so there is one entry and its place
\* in the sorted list is not in question.)
C37_EntryPartitionsAndSums ==
    (fn_call.done /\ fn_call.fn \in {"scan_models", "scan_models_racing"}) =>
        \A m \in 1..Len(ScanEntries) :
              /\ \A name \in NamesIn(ModelFiles(ScanListing)) :
                     Occurrences(ScanEntries[m], name) = 1
              /\ ScanEntries[m].total_size_bytes =
                     GroupSizes(ScanEntries[m].groups)
                         + SumSizes(ScanEntries[m].individual_files)

\* C38: after migrate_model_directory every path of the directory still holds
\* an entry; a symlink with a readable target or a hard-linked file whose copy
\* does not fail has become a regular file with the linked content, and a path
\* whose copy failed holds the entry it held before.
C38_MigrationKeepsEveryFile ==
    (fn_call.fn = "migrate_model_directory" /\ fn_call.done) =>
        \A i \in 1..Len(fn_call.arg) :
            LET before == fn_call.arg[i]
                after == fn_call.ret.entries[i]
                copy_can_succeed == ~before.copy_fails /\ ~before.dangling
            IN  /\ after.present
                /\ after.content = before.content
                /\ (before.kind # "regular" /\ copy_can_succeed) => after.kind = "regular"
                /\ (before.kind = "regular" \/ ~copy_can_succeed) => after.kind = before.kind

\* C39: two different identifiers that validate_repo_id accepts have different
\* cache directory names, and the scan for one of them counts no byte of the
\* cache directory of the other.
C39_CacheKeyInjective ==
    (/\ fn_call.fn = "cache_scan" /\ fn_call.done
     /\ validate_repo_id(Str(fn_call.arg.repo_id))
     /\ validate_repo_id(Str(fn_call.arg.owner))
     /\ fn_call.arg.repo_id # fn_call.arg.owner) =>
        /\ cache_repo_dir(fn_call.arg.repo_id) # cache_repo_dir(fn_call.arg.owner)
        /\ fn_call.ret.total = 0

=============================================================================
